---- MODULE Spec2Model ----
(***************************************************************************)
(* A model of the simulation core of the librarian game: the Shelf         *)
(* container (src/src/game/entities/Shelf.js), the Kid agent              *)
(* (src/unnamed/part_001), the PlayingState orchestrator                   *)
(* (src/src/game/states/PlayingState.js) and the PausedState               *)
(* (src/unnamed/part_000).  VolumeBlock.js and Player.js are not among the *)
(* source files; their operations are modelled from spec.md (sections 3,   *)
(* 4.2 and 7) and are marked as such where they are defined.               *)
(*                                                                         *)
(* The specifications share the definitions: SpecShelf (the Shelf methods  *)
(* under any caller), SpecChaos (the chaos economy on sampled sessions),   *)
(* SpecXP (the XP awards), SpecSpawn (the wave and spawn scheduler over    *)
(* whole sessions), Spec (a session of the whole game, update() step by    *)
(* step), SpecTwin (two runs of it side by side), SpecTick (one update()   *)
(* from sampled states), SpecMove (a kid's movement), SpecDrop (where a    *)
(* kid puts a block), SpecEnter (Spec with the restart) and SpecSession    *)
(* (whole sessions to their end, with fairness).                           *)
(*                                                                         *)
(* Units.  Time is counted in tenths of a second (TimeScale per second).   *)
(* Chaos is a fixed-point number with ChaosScale units per chaos point, so *)
(* that every product  blocks * rate * (1 - dampening/100) * deltaTime  of *)
(* the chaos economy is an exact integer.                                  *)
(***************************************************************************)
EXTENDS Integers, Sequences, FiniteSets, TLC

VARIABLES
    volumeBlocks,        \* PlayingState.volumeBlocks: block id -> VolumeBlock fields
    shelves,             \* PlayingState.shelves: shelf id -> Shelf fields
    lastCall,            \* the last call made (a Shelf method, an orchestrator
                         \* step), its arguments and what it returned
    chaosLevel,          \* gameData.chaosLevel, in chaos units
    elapsedTime,         \* gameData.elapsedTime, in time units
    isPaused,            \* gameData.isPaused
    outcome,             \* what the orchestrator told the state manager:
                         \* "playing", "won" (gameover, won: true) or
                         \* "lost" (gameover, won: false, reason: 'chaos')
    chaosDampening,      \* player.stats.chaosDampening, a percentage
    ticks,               \* the steps (SpecChaos) or update() calls (Spec) so
                         \* far, where the exploration is bounded by them
    stats,               \* gameData's counters: volumeBlocksCollected,
                         \* volumeBlocksShelved, kidsRepelled
    kids,                \* PlayingState.kids: sequence of Kid fields
    maxKids,             \* PlayingState.maxKids
    kidSpawnTimer,       \* PlayingState.kidSpawnTimer, in time units
    lastSpawn,           \* the position <<x, y>> at which the constructor left
                         \* the kid that updateKidSpawning created last
    history,             \* for each kid, how long it has waited at its target
                         \* shelf in this Stealing episode and how long it
                         \* has carried its block, in time units
    body,                \* x, y, vx, vy of the kid whose movement is followed
                         \* (SpecMove), in pixels and pixels per second
    twin,                \* a second run of the session, given the inputs,
                         \* frame lengths and draws of the first (SpecTwin)
    schedule,            \* what the calls of updateKidSpawning have added up
                         \* to: the simulated time since the last spawn and
                         \* the time waited for the next one, in time units
    placed,              \* the block that a kid has put on the floor last:
                         \* its size and its position, in pixels (SpecDrop)
    carriedVolumeBlocks, \* player.carriedVolumeBlocks: sequence of block ids
    xp,                  \* gameData.xp
    xpToNext,            \* gameData.xpToNext
    playerLevel,         \* gameData.playerLevel
    xpMultiplier,        \* player.getXPMultiplier(), in hundredths
    upgradeSelections,   \* the pushState('upgradeSelection') calls so far
    pc,                  \* where update() stands: "idle" between two calls,
                         \* or the step of the call that comes next
    kidIndex,            \* the kid whose update(deltaTime) comes next
    deltaTime            \* the deltaTime of the update() call under way

shelfVars == <<volumeBlocks, shelves>>

sessionVars ==
    <<chaosLevel, elapsedTime, isPaused, outcome, chaosDampening, ticks, stats>>

agentVars ==
    <<kids, maxKids, kidSpawnTimer, carriedVolumeBlocks, lastSpawn, history, body>>

frameVars == <<pc, kidIndex, deltaTime>>

levelVars == <<xp, xpToNext, playerLevel, xpMultiplier, upgradeSelections>>

vars == <<volumeBlocks, shelves, lastCall, chaosLevel, elapsedTime, isPaused,
          outcome, chaosDampening, ticks, stats, kids, maxKids, kidSpawnTimer,
          carriedVolumeBlocks, pc, kidIndex, deltaTime, xp, xpToNext,
          playerLevel, xpMultiplier, upgradeSelections, lastSpawn, history, body,
          twin, schedule, placed, placed>>

----------------------------------------------------------------------------
(* Bounds of the model *)

NumShelves == 2      \* shelves of the world (the game builds 5 x 10)
Capacity == 2        \* slots of a shelf (the game's default is 6)
NumColors == 2       \* colors of the palette in use (the game has 6)
ChaosBlocks == 2     \* blocks whose place varies in the chaos economy's inputs
MaxChaosSteps == 2   \* steps explored from each input of the chaos economy
CarrySlots == 2      \* player.stats.carrySlots (a stat of Player.js, upgradable)
MaxTicks == 3        \* update() calls explored in a session of the whole game

----------------------------------------------------------------------------
(* Helpers *)

Max(a, b) == IF a >= b THEN a ELSE b

Min(a, b) == IF a <= b THEN a ELSE b

ShelfIds == 1..NumShelves

BlockIds == 1..(NumShelves * Capacity)

\* generateVolumeVaultLayout: colors = ['red', 'blue', 'green', ...]
Palette == <<"red", "blue", "green", "yellow", "purple", "orange">>

Colors == {Palette[i] : i \in 1..Min(NumColors, Len(Palette))}

\* The shelf a block is created for in generateVolumeVaultLayout: the blocks
\* are pushed shelf by shelf, shelf.capacity of them per shelf.
HomeShelf(b) == ((b - 1) \div Capacity) + 1

\* A JavaScript null reference (volumeBlocks[i] === null, holder, shelf, target).
Null == 0

----------------------------------------------------------------------------
(* VolumeBlock (VolumeBlock.js is not among the source files: modelled      *)
(* from spec.md 3 "Block", 4.2 and 7)                                       *)

\* new VolumeBlock(game, x, y, color): on the floor, no owner. Of the
\* position (x, y) the model keeps what a kid measured it from when it last
\* put the block on the floor: "shelf" (the centre of a shelf), "kid" (the
\* centre of the kid) or "none" (no kid has placed the block).
NewVolumeBlock(color) ==
    [color |-> color, isHeld |-> FALSE, isShelved |-> FALSE,
     holder |-> Null, shelf |-> Null, placedAround |-> "none"]

\* shelve(shelf): "transitions to Shelved", "owning reference (holder entity
\* OR shelf, never both)".
Shelve(B, b, s) ==
    [B EXCEPT ![b] = [@ EXCEPT !.isShelved = TRUE, !.isHeld = FALSE,
                                !.holder = Null, !.shelf = s]]

\* unshelve(): "clears owning reference and marks Floor".
Unshelve(B, b) ==
    [B EXCEPT ![b] = [@ EXCEPT !.isShelved = FALSE, !.shelf = Null]]

\* pickup(holder): "transitions Floor -> Held; sets owning reference";
\* "a no-op if already Held/Shelved".
Pickup(B, b, h) ==
    IF B[b].isHeld \/ B[b].isShelved
      THEN B
      ELSE [B EXCEPT ![b] = [@ EXCEPT !.isHeld = TRUE, !.holder = h]]

----------------------------------------------------------------------------
(* Shelf *)

\* new Shelf(game, x, y, color, capacity = 6): volumeBlocks =
\* new Array(capacity).fill(null)
NewShelf(color) ==
    [color |-> color, capacity |-> Capacity,
     slots |-> [i \in 1..Capacity |-> Null]]

\* volumeBlocks.filter(volumeBlock => volumeBlock !== null).length
VolumeBlockCount(S, s) ==
    Cardinality({i \in 1..Len(S[s].slots) : S[s].slots[i] # Null})

hasEmptySlots(S, s) == VolumeBlockCount(S, s) < S[s].capacity

getEmptySlotCount(S, s) == S[s].capacity - VolumeBlockCount(S, s)

\* The while loop of addVolumeBlock: the first index (0-based) whose slot is
\* falsy, or capacity when there is none.
FirstEmptySlot(S, s) ==
    LET empty == {i \in 0..(S[s].capacity - 1) : S[s].slots[i + 1] = Null}
    IN  IF empty = {} THEN S[s].capacity
        ELSE CHOOSE i \in empty : \A j \in empty : i <= j

\* A mutation of addVolumeBlock: the color test is dropped.
addVolumeBlockAnyColor(S, B, s, b) ==
    IF ~hasEmptySlots(S, s)
      THEN [ret |-> FALSE, S |-> S, B |-> B]
      ELSE LET slotIndex == FirstEmptySlot(S, s)
           IN  [ret |-> TRUE,
                S |-> [S EXCEPT ![s].slots[slotIndex + 1] = b],
                B |-> Shelve(B, b, s)]

\* A mutation of addVolumeBlock: the block goes to the last empty slot.
addVolumeBlockLastSlot(S, B, s, b) ==
    IF ~hasEmptySlots(S, s) \/ B[b].color # S[s].color
      THEN [ret |-> FALSE, S |-> S, B |-> B]
      ELSE LET empty == {i \in 0..(S[s].capacity - 1) : S[s].slots[i + 1] = Null}
               slotIndex == CHOOSE i \in empty : \A j \in empty : i >= j
           IN  [ret |-> TRUE,
                S |-> [S EXCEPT ![s].slots[slotIndex + 1] = b],
                B |-> Shelve(B, b, s)]

\* Shelf.addVolumeBlock(volumeBlock): the return value and the shelves and
\* blocks after the call.
addVolumeBlock(S, B, s, b) ==
    IF ~hasEmptySlots(S, s) \/ B[b].color # S[s].color
      THEN [ret |-> FALSE, S |-> S, B |-> B]
      ELSE LET slotIndex == FirstEmptySlot(S, s)
           IN  IF slotIndex < S[s].capacity
                 THEN [ret |-> TRUE,
                       S |-> [S EXCEPT ![s].slots[slotIndex + 1] = b],
                       B |-> Shelve(B, b, s)]
                 ELSE [ret |-> FALSE, S |-> S, B |-> B]

\* A mutation of removeVolumeBlock: the upper index test is off by one and
\* an index past the array removes the last slot's block.
removeVolumeBlockOffByOne(S, B, s, index) ==
    LET i == IF index = Len(S[s].slots) THEN index - 1 ELSE index
    IN  IF i >= 0 /\ i < Len(S[s].slots) /\ S[s].slots[i + 1] # Null
          THEN LET b == S[s].slots[i + 1]
               IN  [ret |-> b,
                    S |-> [S EXCEPT ![s].slots[i + 1] = Null],
                    B |-> Unshelve(B, b)]
          ELSE [ret |-> Null, S |-> S, B |-> B]

\* A mutation of removeVolumeBlock: the block is not unshelved.
removeVolumeBlockNoUnshelve(S, B, s, index) ==
    IF index >= 0 /\ index < Len(S[s].slots) /\ S[s].slots[index + 1] # Null
      THEN [ret |-> S[s].slots[index + 1],
            S |-> [S EXCEPT ![s].slots[index + 1] = Null],
            B |-> B]
      ELSE [ret |-> Null, S |-> S, B |-> B]

\* A mutation of removeVolumeBlock: the slot is not cleared.
removeVolumeBlockKeepSlot(S, B, s, index) ==
    IF index >= 0 /\ index < Len(S[s].slots) /\ S[s].slots[index + 1] # Null
      THEN [ret |-> S[s].slots[index + 1],
            S |-> S,
            B |-> Unshelve(B, S[s].slots[index + 1])]
      ELSE [ret |-> Null, S |-> S, B |-> B]

\* Shelf.removeVolumeBlock(index), index 0-based as in the code.
removeVolumeBlock(S, B, s, index) ==
    IF index >= 0 /\ index < Len(S[s].slots) /\ S[s].slots[index + 1] # Null
      THEN LET b == S[s].slots[index + 1]
           IN  [ret |-> b,
                S |-> [S EXCEPT ![s].slots[index + 1] = Null],
                B |-> Unshelve(B, b)]
      ELSE [ret |-> Null, S |-> S, B |-> B]

\* Math.random() yields a float in [0, 1); a draw r stands for r / RandSteps.
RandSteps == 2 * Capacity + 2

RandDraws == 0..(RandSteps - 1)

\* Math.floor(Math.random() * n)
RandomInt(r, n) == (r * n) \div RandSteps

\* volumeBlockIndices of removeRandomVolumeBlock: the occupied indices
\* (0-based), ascending.
RECURSIVE OccupiedFrom(_, _)
OccupiedFrom(slots, i) ==
    IF i > Len(slots) THEN <<>>
    ELSE IF slots[i] # Null THEN <<i - 1>> \o OccupiedFrom(slots, i + 1)
    ELSE OccupiedFrom(slots, i + 1)

volumeBlockIndices(S, s) == OccupiedFrom(S[s].slots, 1)

\* A mutation of removeRandomVolumeBlock: the draw never reaches the last
\* occupied index (Math.floor(Math.random() * (length - 1))).
removeRandomVolumeBlockShort(S, B, s, r) ==
    LET indices == volumeBlockIndices(S, s)
    IN  IF Len(indices) = 0
          THEN [ret |-> Null, S |-> S, B |-> B]
          ELSE removeVolumeBlock(S, B, s,
                   indices[RandomInt(r, Max(1, Len(indices) - 1)) + 1])

\* Shelf.removeRandomVolumeBlock() with the random draw r.
removeRandomVolumeBlock(S, B, s, r) ==
    LET indices == volumeBlockIndices(S, s)
    IN  IF Len(indices) = 0
          THEN [ret |-> Null, S |-> S, B |-> B]
          ELSE removeVolumeBlock(S, B, s,
                   indices[RandomInt(r, Len(indices)) + 1])

\* A mutation of renderVolumeBlocks: the test of the reference is inverted,
\* so the slots of the blocks that are Shelved on this shelf are cleared.
renderVolumeBlocksClearsShelved(S, B, s) ==
    [S EXCEPT ![s].slots =
        [i \in 1..Len(S[s].slots) |->
            LET b == S[s].slots[i]
            IN  IF b # Null /\ B[b].isShelved /\ B[b].shelf = s
                  THEN Null ELSE b]]

\* Shelf.renderVolumeBlocks: a slot whose block is not Shelved on this shelf
\* is cleared ("clean up invalid volume block reference silently").
renderVolumeBlocks(S, B, s) ==
    [S EXCEPT ![s].slots =
        [i \in 1..Len(S[s].slots) |->
            LET b == S[s].slots[i]
            IN  IF b # Null /\ (~B[b].isShelved \/ B[b].shelf # s)
                  THEN Null ELSE b]]

----------------------------------------------------------------------------
(* The session data and the chaos economy (PlayingState) *)

\* Time units per second: deltaTime and every timer are counted in tenths
\* of a second.
TimeScale == 10

Seconds(n) == n * TimeScale

\* Chaos units per chaos point: hundredths (the rate per block) times
\* hundredths (the dampening multiplier) times tenths of a second.
ChaosScale == 100 * 100 * TimeScale

\* gameData.maxChaos
maxChaos == 100

MaxChaosUnits == maxChaos * ChaosScale

\* gameData.targetTime: 30 * 60 seconds
targetTime == Seconds(30 * 60)

\* The holder reference of a block carried by the player (the kids are
\* referred to by their positive index in PlayingState.kids).
Player == -1

\* enter(): the gameData of a new session; the player's stats are as
\* constructed (no upgrade taken).
NoStats == [volumeBlocksCollected |-> 0, volumeBlocksShelved |-> 0,
            kidsRepelled |-> 0]

\* enter(), lines 79-81: level 1, no XP, 100 XP to the next level; the
\* player's XP multiplier before any upgrade is 1 and no upgrade selection
\* has been asked for.
LevelOne ==
    /\ xp = 0
    /\ xpToNext = 100
    /\ playerLevel = 1
    /\ xpMultiplier = 100
    /\ upgradeSelections = 0

\* enter(), lines 76-89: the gameData of a new session; the player's
\* chaosDampening stat before any upgrade.
SessionStart ==
    /\ chaosLevel = 0
    /\ elapsedTime = 0
    /\ isPaused = FALSE
    /\ outcome = "playing"
    /\ chaosDampening = 0
    /\ ticks = 0
    /\ stats = NoStats
    /\ LevelOne

\* updateChaos: volumeBlocksOnFloor
volumeBlocksOnFloor(B) ==
    Cardinality({b \in DOMAIN B : ~B[b].isHeld /\ ~B[b].isShelved})

\* updateChaos: volumeBlocksHeldByKids (holder.constructor.name === 'Kid')
volumeBlocksHeldByKids(B) ==
    Cardinality({b \in DOMAIN B :
                    B[b].isHeld /\ B[b].holder # Null /\ B[b].holder # Player})

\* A mutation of totalChaosVolumeBlocks: every held block counts, whoever
\* holds it.
totalChaosVolumeBlocksAnyHolder(B) ==
    volumeBlocksOnFloor(B) + Cardinality({b \in DOMAIN B : B[b].isHeld})

totalChaosVolumeBlocks(B) == volumeBlocksOnFloor(B) + volumeBlocksHeldByKids(B)

\* A mutation of chaosPerVolumeBlock: the tiers include their upper ends
\* (minutes <= 3, minutes <= 5).
chaosPerVolumeBlockInclusive(elapsed) ==
    IF elapsed <= Seconds(3 * 60) THEN 5
    ELSE IF elapsed <= Seconds(5 * 60) THEN 3
    ELSE 1

\* updateChaos: chaosPerVolumeBlock in hundredths of a chaos point per block
\* and second, by minutes = elapsedTime / 60.
chaosPerVolumeBlock(elapsed) ==
    IF elapsed < Seconds(3 * 60) THEN 5
    ELSE IF elapsed < Seconds(5 * 60) THEN 3
    ELSE 1

\* updateChaos: chaosRate * deltaTime * chaosMultiplier, in chaos units.
ChaosAccrual(total, elapsed, dampening, dt) ==
    total * chaosPerVolumeBlock(elapsed) * dt * (100 - dampening)

\* updateChaos: 0.1 * deltaTime, in chaos units.
ChaosDecay(dt) == (ChaosScale \div (10 * TimeScale)) * dt

\* Math.max(0, Math.min(gameData.maxChaos, gameData.chaosLevel))
ClampChaos(c) == Max(0, Min(MaxChaosUnits, c))

\* A mutation of updateChaos: the result is not clamped.
updateChaosUnclamped(c, B, elapsed, dampening, dt) ==
    LET total == totalChaosVolumeBlocks(B)
        accrued == IF total > 0
                     THEN c + ChaosAccrual(total, elapsed, dampening, dt)
                     ELSE c
    IN  IF accrued > 0 /\ total = 0 THEN accrued - ChaosDecay(dt) ELSE accrued

\* A mutation of updateChaos: the passive decay also runs while chaos is
\* under 50%, whatever the number of blocks out (the decay the code's
\* comment says was removed).
updateChaosDecayWhenLow(c, B, elapsed, dampening, dt) ==
    LET total == totalChaosVolumeBlocks(B)
        accrued == IF total > 0
                     THEN c + ChaosAccrual(total, elapsed, dampening, dt)
                     ELSE c
        decayed == IF accrued > 0 /\ (total = 0 \/ 2 * accrued < MaxChaosUnits)
                     THEN accrued - ChaosDecay(dt)
                     ELSE accrued
    IN  ClampChaos(decayed)

\* updateChaos(deltaTime): the new chaosLevel from the old one c, the blocks
\* B, the (already advanced) elapsed time and the player's dampening.
updateChaos(c, B, elapsed, dampening, dt) ==
    LET total == totalChaosVolumeBlocks(B)
        accrued == IF total > 0
                     THEN c + ChaosAccrual(total, elapsed, dampening, dt)
                     ELSE c
        decayed == IF accrued > 0 /\ total = 0
                     THEN accrued - ChaosDecay(dt)
                     ELSE accrued
    IN  ClampChaos(decayed)

\* A mutation of the pickup reward: the result is not floored at 0.
ChaosAfterPickupNoFloor(c) == c - ChaosScale \div 2

\* checkVolumeBlockPickup: chaosLevel -= 0.5; Math.max(0, chaosLevel)
ChaosAfterPickup(c) == Max(0, c - ChaosScale \div 2)

\* checkVolumeBlockSnatching: chaosLevel -= 0.75; Math.max(0, chaosLevel)
ChaosAfterSnatch(c) == Max(0, c - (3 * ChaosScale) \div 4)

\* checkVolumeBlockShelving: chaosLevel -= 1.0; Math.max(0, chaosLevel)
ChaosAfterShelve(c) == Max(0, c - ChaosScale)

----------------------------------------------------------------------------
(* Kid (src/unnamed/part_001) *)

\* constructor: the timings of an aggression level, in time units
volumeBlockStealCooldownTime(a) ==
    IF a = 1 THEN 2 * TimeScale ELSE IF a = 2 THEN (3 * TimeScale) \div 2
    ELSE TimeScale

\* constructor, lines 37-38: the detection ranges, in pixels
shelfDetectionRange == 160

playerDetectionRange == 120

grabDelayTime(a) ==
    IF a = 1 THEN TimeScale ELSE IF a = 2 THEN TimeScale \div 2
    ELSE TimeScale \div 5

dropVolumeBlockMinTime(a) ==
    IF a = 1 THEN 4 * TimeScale ELSE IF a = 2 THEN 3 * TimeScale
    ELSE 2 * TimeScale

dropVolumeBlockMaxTime(a) ==
    IF a = 1 THEN 6 * TimeScale ELSE IF a = 2 THEN 4 * TimeScale
    ELSE 3 * TimeScale

\* new Kid(game, x, y, aggressionLevel)
NewKid(a) ==
    [aggressionLevel |-> a, state |-> "wandering", target |-> Null,
     carriedVolumeBlock |-> Null, volumeBlockStealCooldown |-> 0,
     dropVolumeBlockTimer |-> 0, grabDelay |-> 0]

\* What a kid's update reads from the geometry and from Math.random():
\*   dist        getDistanceTo(player), centre to centre
\*   seen        the shelves within shelfDetectionRange
\*   touching    isNearShelf(target, 5)
\*   slot        the draw of removeRandomVolumeBlock
\*   knock       Math.random() < 0.5: knock to the floor, not carry away
\*   scare       the draw of the scared drop while fleeing
\*   hold        the draw of the carry time before the forced drop
KidInput(dist, seen, touching, slot, knock, scare, hold) ==
    [dist |-> dist, seen |-> seen, touching |-> touching, slot |-> slot,
     knock |-> knock, scare |-> scare, hold |-> hold]

\* shelf.volumeBlocks.some(v => v !== null)
HasStock(S, s) == \E i \in 1..Len(S[s].slots) : S[s].slots[i] # Null

\* A mutation of dropVolumeBlock: the block is released and the kid keeps
\* its reference to it.
dropVolumeBlockKeepCarried(W, i) ==
    LET b == W.kids[i].carriedVolumeBlock
    IN  IF b = Null THEN W
        ELSE [W EXCEPT !.volumeBlocks[b].isHeld = FALSE,
                       !.volumeBlocks[b].holder = Null,
                       !.volumeBlocks[b].isShelved = FALSE]

\* dropVolumeBlock(), lines 488-537: with a target the block is placed
\* around the target shelf (lines 501-508), without one around the kid
\* (lines 509-517)
dropVolumeBlock(W, i) ==
    LET b == W.kids[i].carriedVolumeBlock
    IN  IF b = Null THEN W
        ELSE [W EXCEPT !.volumeBlocks[b].isHeld = FALSE,
                       !.volumeBlocks[b].holder = Null,
                       !.volumeBlocks[b].isShelved = FALSE,
                       !.volumeBlocks[b].placedAround =
                           IF W.kids[i].target # Null THEN "shelf" ELSE "kid",
                       !.kids[i].carriedVolumeBlock = Null]

\* updateWandering: the first shelf of the list that is in range and stocked
FirstSeenStocked(S, seen) ==
    LET c == {s \in seen : HasStock(S, s)}
    IN  IF c = {} THEN Null ELSE CHOOSE s \in c : \A o \in c : s <= o

\* A mutation of updateWandering: a kid that carries a block looks for a
\* shelf too.
updateWanderingWhileCarrying(W, i, in) ==
    LET k == W.kids[i]
        s == FirstSeenStocked(W.shelves, in.seen)
    IN  IF in.dist < playerDetectionRange
          THEN [W EXCEPT !.kids[i].state = "fleeing",
                         !.stats.kidsRepelled = @ + 1]
        ELSE IF k.volumeBlockStealCooldown <= 0 /\ s # Null
          THEN [W EXCEPT !.kids[i].target = s, !.kids[i].state = "stealing"]
        ELSE W

\* updateWandering(deltaTime), lines 137-245
updateWandering(W, i, in) ==
    LET k == W.kids[i]
        s == FirstSeenStocked(W.shelves, in.seen)
    IN  IF in.dist < playerDetectionRange
          THEN [W EXCEPT !.kids[i].state = "fleeing",
                         !.stats.kidsRepelled = @ + 1]
        ELSE IF k.carriedVolumeBlock = Null /\ k.volumeBlockStealCooldown <= 0
                /\ s # Null
          THEN [W EXCEPT !.kids[i].target = s, !.kids[i].state = "stealing"]
        ELSE W

\* A mutation of updateFleeing: the kid stops fleeing at 1.5 times the
\* detection range already.
updateFleeingInclusive(W, i, dt, in) ==
    IF 2 * in.dist >= 3 * playerDetectionRange
      THEN [W EXCEPT !.kids[i].state = "wandering"]
    ELSE IF W.kids[i].carriedVolumeBlock # Null
            /\ in.scare * TimeScale < 2 * dt * RandSteps
      THEN dropVolumeBlock(W, i)
    ELSE W

\* updateFleeing(deltaTime), lines 247-297 (the player exists)
updateFleeing(W, i, dt, in) ==
    IF 2 * in.dist > 3 * playerDetectionRange
      THEN [W EXCEPT !.kids[i].state = "wandering"]
    ELSE IF W.kids[i].carriedVolumeBlock # Null
            /\ in.scare * TimeScale < 2 * dt * RandSteps
      THEN dropVolumeBlock(W, i)
    ELSE W

\* A mutation of updateStealing: the kid that carries the block away keeps
\* its target.
updateStealingKeepsTarget(W, i, dt, in) ==
    LET k == W.kids[i]
    IN  IF k.target = Null \/ k.carriedVolumeBlock # Null
          THEN [W EXCEPT !.kids[i].state = "wandering"]
        ELSE IF in.dist < playerDetectionRange
          THEN [W EXCEPT !.kids[i].state = "fleeing",
                         !.stats.kidsRepelled = @ + 1]
        ELSE IF ~in.touching
          THEN W
        ELSE
          LET started == IF k.grabDelay <= 0
                           THEN grabDelayTime(k.aggressionLevel)
                           ELSE k.grabDelay
              grabDelay == started - dt
          IN  IF grabDelay > 0
                THEN [W EXCEPT !.kids[i].grabDelay = grabDelay]
              ELSE
                LET r == removeRandomVolumeBlock(W.shelves, W.volumeBlocks,
                                                 k.target, in.slot)
                    b == r.ret
                    taken == [W EXCEPT !.shelves = r.S, !.volumeBlocks = r.B,
                                       !.kids[i].target = Null,
                                       !.kids[i].grabDelay = 0]
                IN  IF b = Null
                      THEN [taken EXCEPT
                              !.kids[i].state = "wandering",
                              !.kids[i].volumeBlockStealCooldown = TimeScale]
                    ELSE IF in.knock
                      THEN [taken EXCEPT
                              !.volumeBlocks[b].placedAround = "shelf",
                              !.kids[i].state = "fleeing",
                              !.kids[i].volumeBlockStealCooldown =
                                  volumeBlockStealCooldownTime(k.aggressionLevel)]
                    ELSE [taken EXCEPT
                              !.kids[i].target = k.target,
                              !.kids[i].carriedVolumeBlock = b,
                              !.volumeBlocks[b].isHeld = TRUE,
                              !.volumeBlocks[b].holder = i,
                              !.kids[i].state = "fleeing",
                              !.kids[i].volumeBlockStealCooldown =
                                  volumeBlockStealCooldownTime(k.aggressionLevel)]

\* updateStealing(deltaTime), lines 299-381
updateStealing(W, i, dt, in) ==
    LET k == W.kids[i]
    IN  IF k.target = Null \/ k.carriedVolumeBlock # Null
          THEN [W EXCEPT !.kids[i].state = "wandering"]
        ELSE IF in.dist < playerDetectionRange
          THEN [W EXCEPT !.kids[i].state = "fleeing",
                         !.stats.kidsRepelled = @ + 1]
        ELSE IF ~in.touching
          THEN W
        ELSE
          LET started == IF k.grabDelay <= 0
                           THEN grabDelayTime(k.aggressionLevel)
                           ELSE k.grabDelay
              grabDelay == started - dt
          IN  IF grabDelay > 0
                THEN [W EXCEPT !.kids[i].grabDelay = grabDelay]
              ELSE
                LET r == removeRandomVolumeBlock(W.shelves, W.volumeBlocks,
                                                 k.target, in.slot)
                    b == r.ret
                    taken == [W EXCEPT !.shelves = r.S, !.volumeBlocks = r.B,
                                       !.kids[i].target = Null,
                                       !.kids[i].grabDelay = 0]
                IN  IF b = Null
                      THEN [taken EXCEPT
                              !.kids[i].state = "wandering",
                              !.kids[i].volumeBlockStealCooldown = TimeScale]
                    ELSE IF in.knock
                      THEN [taken EXCEPT
                              !.volumeBlocks[b].placedAround = "shelf",
                              !.kids[i].state = "fleeing",
                              !.kids[i].volumeBlockStealCooldown =
                                  volumeBlockStealCooldownTime(k.aggressionLevel)]
                    ELSE [taken EXCEPT
                              !.kids[i].carriedVolumeBlock = b,
                              !.volumeBlocks[b].isHeld = TRUE,
                              !.volumeBlocks[b].holder = i,
                              !.kids[i].state = "fleeing",
                              !.kids[i].volumeBlockStealCooldown =
                                  volumeBlockStealCooldownTime(k.aggressionLevel)]

\* A mutation of the forced drop: the kid's state is left as it is.
updateDropTimerKeepState(W, i, dt, in) ==
    LET k == W.kids[i]
        timer == k.dropVolumeBlockTimer + dt
        span == dropVolumeBlockMaxTime(k.aggressionLevel)
                  - dropVolumeBlockMinTime(k.aggressionLevel)
    IN  IF k.carriedVolumeBlock = Null THEN W
        ELSE IF timer * RandSteps
                  > dropVolumeBlockMinTime(k.aggressionLevel) * RandSteps
                      + in.hold * span
          THEN [dropVolumeBlock(W, i) EXCEPT
                  !.kids[i].dropVolumeBlockTimer = 0]
        ELSE [W EXCEPT !.kids[i].dropVolumeBlockTimer = timer]

\* update(deltaTime), lines 118-127: the carry timer and the forced drop
updateDropTimer(W, i, dt, in) ==
    LET k == W.kids[i]
        timer == k.dropVolumeBlockTimer + dt
        span == dropVolumeBlockMaxTime(k.aggressionLevel)
                  - dropVolumeBlockMinTime(k.aggressionLevel)
    IN  IF k.carriedVolumeBlock = Null THEN W
        ELSE IF timer * RandSteps
                  > dropVolumeBlockMinTime(k.aggressionLevel) * RandSteps
                      + in.hold * span
          THEN [dropVolumeBlock(W, i) EXCEPT
                  !.kids[i].dropVolumeBlockTimer = 0,
                  !.kids[i].state = "wandering"]
        ELSE [W EXCEPT !.kids[i].dropVolumeBlockTimer = timer]

\* update(deltaTime), lines 69-135
update(W, i, dt, in) ==
    LET k == W.kids[i]
        cooled == IF k.volumeBlockStealCooldown > 0
                    THEN [W EXCEPT !.kids[i].volumeBlockStealCooldown = @ - dt]
                    ELSE W
        moved == CASE k.state = "wandering" -> updateWandering(cooled, i, in)
                   [] k.state = "fleeing" -> updateFleeing(cooled, i, dt, in)
                   [] k.state = "stealing" -> updateStealing(cooled, i, dt, in)
    IN  updateDropTimer(moved, i, dt, in)

\* What the updates of a kid have added up to, apart from the kid's own
\* timers: the time it has waited at its target shelf in the Stealing
\* episode under way (lines 334-340), and the time it has carried the block
\* it carries, counted as dropVolumeBlockTimer counts it, from the update
\* that took the block (lines 118-119).
NoHistory == [waited |-> 0, carried |-> 0]

NoHistories(K) == [i \in 1..Len(K) |-> NoHistory]

\* The history of a kid after update(dt) has taken it from k to k2 with
\* the inputs in.
Observed(h, k, k2, dt, in) ==
    [waited |-> IF k.state = "stealing" /\ k2.state = "stealing"
                  THEN h.waited + (IF in.touching THEN dt ELSE 0)
                  ELSE 0,
     carried |-> IF k2.carriedVolumeBlock = Null THEN 0
                 ELSE IF k.carriedVolumeBlock = Null THEN dt
                 ELSE h.carried + dt]

\* The histories once the player has snatched blocks: a kid that carries
\* nothing has carried its block for no time.
Settled(H, K) ==
    [i \in 1..Len(K) |->
        IF K[i].carriedVolumeBlock = Null THEN [H[i] EXCEPT !.carried = 0]
        ELSE H[i]]

\* The kid whose movement is followed, when no movement is: at the origin,
\* at rest.
NoBody == [x |-> 0, y |-> 0, vx |-> 0, vy |-> 0]

\* The second run, when no second run is followed.
NoTwin == [on |-> FALSE]

\* No kid has put a block on the floor.
NoPlace == [op |-> "none", x |-> 0, y |-> 0, width |-> 0, height |-> 0]

\* No call of updateKidSpawning yet: the session starts, nothing waited.
NoSchedule == [sinceSpawn |-> 0, waited |-> 0]

----------------------------------------------------------------------------
(* Player (Player.js is not among the source files: its two methods are     *)
(* modelled from their call sites in PlayingState and from spec.md 3, "an   *)
(* ordered collection of carried Blocks bounded by carry-slot count")       *)

\* player.pickupVolumeBlock(volumeBlock): takes the block if a carry slot
\* is free
pickupVolumeBlock(W, b) ==
    IF Len(W.carriedVolumeBlocks) < CarrySlots
      THEN [ret |-> TRUE, W |-> [W EXCEPT !.carriedVolumeBlocks = Append(@, b)]]
      ELSE [ret |-> FALSE, W |-> W]

\* The first carried block of a color, as an index of the carried
\* collection, or 0.
RECURSIVE FirstCarried(_, _, _, _)
FirstCarried(P, B, color, j) ==
    IF j > Len(P) THEN 0
    ELSE IF B[P[j]].color = color THEN j
    ELSE FirstCarried(P, B, color, j + 1)

\* player.shelveVolumeBlock(shelf): gives up the first carried block of the
\* shelf's color, or null
shelveVolumeBlock(W, s) ==
    LET P == W.carriedVolumeBlocks
        j == FirstCarried(P, W.volumeBlocks, W.shelves[s].color, 1)
    IN  IF j = 0 THEN [ret |-> Null, W |-> W]
        ELSE [ret |-> P[j],
              W |-> [W EXCEPT !.carriedVolumeBlocks =
                         SubSeq(P, 1, j - 1) \o SubSeq(P, j + 1, Len(P))]]

----------------------------------------------------------------------------
(* PlayingState: the world and the steps of update() after the lose test *)

\* The objects the steps of update() read and write.
World ==
    [shelves |-> shelves, volumeBlocks |-> volumeBlocks, kids |-> kids,
     carriedVolumeBlocks |-> carriedVolumeBlocks, chaosLevel |-> chaosLevel,
     stats |-> stats, xp |-> xp, xpToNext |-> xpToNext,
     playerLevel |-> playerLevel, upgradeSelections |-> upgradeSelections,
     elapsedTime |-> elapsedTime, xpMultiplier |-> xpMultiplier]

\* The world after a step is W (a step does not write the elapsed time
\* or the player's XP multiplier).
SetWorld(W) ==
    /\ shelves' = W.shelves
    /\ volumeBlocks' = W.volumeBlocks
    /\ kids' = W.kids
    /\ carriedVolumeBlocks' = W.carriedVolumeBlocks
    /\ chaosLevel' = W.chaosLevel
    /\ stats' = W.stats
    /\ xp' = W.xp
    /\ xpToNext' = W.xpToNext
    /\ playerLevel' = W.playerLevel
    /\ upgradeSelections' = W.upgradeSelections

\* initializeLevel: const initialKids = 2
initialKids == 2

\* constructor, lines 53-62: this.spawnPoints, as <<x, y>>
spawnPoints ==
    << <<500, 400>>, <<1500, 400>>, <<500, 800>>, <<1500, 800>>,
       <<1000, 300>>, <<1000, 900>>, <<300, 600>>, <<1700, 600>> >>

\* No kid has been created by updateKidSpawning yet.
NoSpawn == <<0, 0>>

\* generateVolumeVaultLayout, lines 717-743: the positions <<x, y>> of the
\* shelves of the vault, 5 rows of 10 from (200, 200) every 180 pixels.  The
\* model follows the slots of NumShelves of them; all of them stand in the
\* way of a kid.
LayoutPositions ==
    {<<200 + col * 180, 200 + row * 180>> : col \in 0..9, row \in 0..4}

\* Kid.checkCollision(x, y, shelf), lines 641-664, of a kid (48 x 60, line 5)
\* at (x, y) with the collision box (64 x 96, Shelf.js 18-23) of the shelf
\* at position q
checkCollision(x, y, q) ==
    ~(x >= q[1] + 64 \/ x + 48 <= q[1] \/ y >= q[2] + 96 \/ y + 60 <= q[2])

\* A mutation of ensureSafeSpawnPosition: the kid stays where it was created.
ensureSafeSpawnPositionNoMove(x, y) == <<x, y>>

\* Kid.ensureSafeSpawnPosition(), lines 53-67, in the Kid constructor: where
\* a kid created at (x, y) stands
ensureSafeSpawnPosition(x, y) ==
    IF \E q \in LayoutPositions : checkCollision(x, y, q)
      THEN <<30, 30>>
      ELSE <<x, y>>

\* lines 700-701: new Kid(game, spawnPoint.x, spawnPoint.y, ...) at the
\* spawn point of index p (Math.floor(Math.random() * spawnPoints.length))
SpawnPosition(p) ==
    ensureSafeSpawnPosition(spawnPoints[p + 1][1], spawnPoints[p + 1][2])

\* initializeLevel, lines 197-213: the first kids, all of aggression 1, and
\* the spawn timer.  enter() has reset maxKids to 3.
LevelKids ==
    /\ kids = [i \in 1..initialKids |-> NewKid(1)]
    /\ maxKids = 3
    /\ kidSpawnTimer = Seconds(15)
    /\ lastSpawn = NoSpawn
    /\ history = NoHistories(kids)
    /\ body = NoBody

\* constructor, lines 12-31: no entities yet
Constructed ==
    /\ kids = << >>
    /\ maxKids = 3
    /\ kidSpawnTimer = 0
    /\ lastSpawn = NoSpawn
    /\ history = << >>
    /\ body = NoBody
    /\ twin = NoTwin
    /\ schedule = NoSchedule
    /\ placed = NoPlace
    /\ carriedVolumeBlocks = << >>
    /\ pc = "idle"
    /\ kidIndex = 0
    /\ deltaTime = 0

\* A mutation of WaveMaxKids: the first wave lasts through the 60th second
\* (minutes <= 1).
WaveMaxKidsInclusive(elapsed) ==
    IF elapsed <= Seconds(60) THEN 3
    ELSE IF elapsed < Seconds(3 * 60) THEN 5
    ELSE IF elapsed < Seconds(5 * 60) THEN 7
    ELSE IF elapsed < Seconds(10 * 60) THEN 10
    ELSE 10 + ((elapsed - Seconds(10 * 60)) \div Seconds(60)) * 2

\* updateKidSpawning, lines 632-649: the cap of the wave, from the minutes
WaveMaxKids(elapsed) ==
    IF elapsed < Seconds(60) THEN 3
    ELSE IF elapsed < Seconds(3 * 60) THEN 5
    ELSE IF elapsed < Seconds(5 * 60) THEN 7
    ELSE IF elapsed < Seconds(10 * 60) THEN 10
    ELSE 10 + ((elapsed - Seconds(10 * 60)) \div Seconds(60)) * 2

\* updateKidSpawning, lines 685-697: the aggression level, from the minutes
SpawnAggression(elapsed) ==
    IF elapsed >= Seconds(10 * 60) THEN 3
    ELSE IF elapsed >= Seconds(5 * 60) THEN 2
    ELSE 1

\* A mutation of updateKidSpawning: the spawn timer runs and spawns without
\* the test of the population against the cap.
updateKidSpawningNoCap(K, cap, timer, elapsed, dt) ==
    LET newCap == Max(cap, WaveMaxKids(elapsed))
    IN  IF timer - dt <= 0
          THEN [kids |-> Append(K, NewKid(SpawnAggression(elapsed))),
                maxKids |-> newCap, kidSpawnTimer |-> Seconds(15)]
          ELSE [kids |-> K, maxKids |-> newCap, kidSpawnTimer |-> timer - dt]

\* A mutation of updateKidSpawning: the timer restarts from what the
\* countdown left over (kidSpawnTimer += spawnInterval).
updateKidSpawningCarryOver(K, cap, timer, elapsed, dt) ==
    LET newCap == Max(cap, WaveMaxKids(elapsed))
    IN  IF Len(K) >= newCap
          THEN [kids |-> K, maxKids |-> newCap, kidSpawnTimer |-> timer]
        ELSE IF timer - dt <= 0
          THEN [kids |-> Append(K, NewKid(SpawnAggression(elapsed))),
                maxKids |-> newCap, kidSpawnTimer |-> timer - dt + Seconds(15)]
        ELSE [kids |-> K, maxKids |-> newCap, kidSpawnTimer |-> timer - dt]

\* A mutation of updateKidSpawning: the timer counts down in the calls that
\* find the cap unchanged only (a return after the cap is raised).
updateKidSpawningReturnAtRise(K, cap, timer, elapsed, dt) ==
    LET newCap == Max(cap, WaveMaxKids(elapsed))
    IN  IF Len(K) >= newCap \/ newCap > cap
          THEN [kids |-> K, maxKids |-> newCap, kidSpawnTimer |-> timer]
        ELSE IF timer - dt <= 0
          THEN [kids |-> Append(K, NewKid(SpawnAggression(elapsed))),
                maxKids |-> newCap, kidSpawnTimer |-> Seconds(15)]
        ELSE [kids |-> K, maxKids |-> newCap, kidSpawnTimer |-> timer - dt]

\* updateKidSpawning(deltaTime), lines 631-710: the kids, the cap and the
\* spawn timer after the call
updateKidSpawning(K, cap, timer, elapsed, dt) ==
    LET newCap == IF WaveMaxKids(elapsed) > cap THEN WaveMaxKids(elapsed)
                  ELSE cap
    IN  IF Len(K) >= newCap
          THEN [kids |-> K, maxKids |-> newCap, kidSpawnTimer |-> timer]
        ELSE IF timer - dt <= 0
          THEN [kids |-> Append(K, NewKid(SpawnAggression(elapsed))),
                maxKids |-> newCap, kidSpawnTimer |-> Seconds(15)]
        ELSE [kids |-> K, maxKids |-> newCap, kidSpawnTimer |-> timer - dt]

\* What a call of updateKidSpawning that gave r adds to the schedule sch
\* of the kids K: the time since the last spawn (counted up to the spawn
\* interval, 15 s, and not beyond) and the time waited for the next spawn
\* over the calls in a row that found the population under the cap.
Scheduled(sch, K, r, dt) ==
    IF Len(r.kids) > Len(K) THEN NoSchedule
    ELSE [sinceSpawn |-> Min(sch.sinceSpawn + dt, Seconds(15)),
          waited |-> IF Len(K) < r.maxKids THEN sch.waited + dt ELSE 0]

RECURSIVE PowerOf(_, _)
PowerOf(x, n) == IF n = 0 THEN 1 ELSE x * PowerOf(x, n - 1)

\* awardXP, line 904: Math.floor(100 * Math.pow(1.45, playerLevel - 1)),
\* which is 145^(level-1) / 100^(level-2) rounded down from level 2 on
XpRequirement(level) ==
    IF level <= 1 THEN 100
    ELSE PowerOf(145, level - 1) \div PowerOf(100, level - 2)

\* A mutation of multipliedAmount: the early boost still applies at the
\* 120th second (elapsedTime <= 120).
multipliedAmountInclusive(amount, m, elapsed) ==
    LET mult == IF m = 0 THEN 100 ELSE m
        boosted == IF elapsed <= Seconds(120) THEN mult * 15 ELSE mult * 10
    IN  (amount * boosted) \div 1000

\* awardXP, lines 870-877: multipliedAmount, from the multiplier m in
\* hundredths (getXPMultiplier() || 1) and the early boost of 1.5 under
\* 120 seconds; the product is counted in thousandths and rounded down
multipliedAmount(amount, m, elapsed) ==
    LET mult == IF m = 0 THEN 100 ELSE m
        boosted == IF elapsed < Seconds(120) THEN mult * 15 ELSE mult * 10
    IN  (amount * boosted) \div 1000

\* A mutation of levelUpDue: the level is gained only when the XP exceeds
\* the requirement.
levelUpDueStrict(W) == W.xp > W.xpToNext

\* awardXP, line 894: the test of the level-up loop
levelUpDue(W) == W.xp >= W.xpToNext

\* awardXP, lines 894-908: the level-up loop
RECURSIVE LevelUp(_)
LevelUp(W) ==
    IF ~levelUpDue(W) THEN W
    ELSE LevelUp([W EXCEPT !.xp = @ - W.xpToNext,
                           !.playerLevel = @ + 1,
                           !.xpToNext = XpRequirement(W.playerLevel + 1),
                           !.upgradeSelections = @ + 1])

\* awardXP(amount), lines 866-909
awardXP(W, amount) ==
    LevelUp([W EXCEPT !.xp = @ + multipliedAmount(amount, W.xpMultiplier,
                                                  W.elapsedTime)])

\* checkVolumeBlockPickup, lines 806-835: the loop over the blocks, from
\* block b on; near holds the blocks within the pickup radius
RECURSIVE PickupFrom(_, _, _)
PickupFrom(W, near, b) ==
    IF b > Len(W.volumeBlocks) THEN W
    ELSE IF W.volumeBlocks[b].isHeld \/ W.volumeBlocks[b].isShelved
            \/ b \notin near
      THEN PickupFrom(W, near, b + 1)
    ELSE LET p == pickupVolumeBlock(W, b)
         IN  IF ~p.ret THEN PickupFrom(p.W, near, b + 1)
             ELSE PickupFrom(
                    awardXP(
                      [p.W EXCEPT !.volumeBlocks = Pickup(@, b, Player),
                                  !.stats.volumeBlocksCollected = @ + 1,
                                  !.chaosLevel = ChaosAfterPickup(@)],
                      5),
                    near, b + 1)

\* checkVolumeBlockPickup(), lines 799-836
checkVolumeBlockPickup(W, near) == PickupFrom(W, near, 1)

\* checkVolumeBlockSnatching, lines 996-1035: the loop over the kids, from
\* kid i on; near holds the kids within the snatch radius
RECURSIVE SnatchFrom(_, _, _)
SnatchFrom(W, near, i) ==
    IF i > Len(W.kids) THEN W
    ELSE IF W.kids[i].carriedVolumeBlock = Null \/ i \notin near
      THEN SnatchFrom(W, near, i + 1)
    ELSE LET b == W.kids[i].carriedVolumeBlock
             robbed == [W EXCEPT !.kids[i].carriedVolumeBlock = Null,
                                 !.kids[i].dropVolumeBlockTimer = 0]
             p == pickupVolumeBlock(robbed, b)
         IN  IF ~p.ret THEN SnatchFrom(p.W, near, i + 1)
             ELSE SnatchFrom(
                    awardXP(
                      [p.W EXCEPT !.volumeBlocks = Pickup(@, b, Player),
                                  !.stats.volumeBlocksCollected = @ + 1,
                                  !.kids[i].state = "fleeing",
                                  !.chaosLevel = ChaosAfterSnatch(@)],
                      7),
                    near, i + 1)

\* checkVolumeBlockSnatching(), lines 988-1036
checkVolumeBlockSnatching(W, near) ==
    IF Len(W.carriedVolumeBlocks) >= CarrySlots THEN W
    ELSE SnatchFrom(W, near, 1)

\* checkVolumeBlockShelving, lines 843-863: the loop over the shelves, from
\* shelf s on; near holds the shelves within the return radius
RECURSIVE ShelveFrom(_, _, _)
ShelveFrom(W, near, s) ==
    IF s > Len(W.shelves) THEN W
    ELSE IF s \notin near \/ ~hasEmptySlots(W.shelves, s)
      THEN ShelveFrom(W, near, s + 1)
    ELSE LET p == shelveVolumeBlock(W, s)
             a == addVolumeBlock(p.W.shelves, p.W.volumeBlocks, s, p.ret)
         IN  IF p.ret = Null THEN ShelveFrom(p.W, near, s + 1)
             ELSE IF ~a.ret
               THEN ShelveFrom([p.W EXCEPT !.shelves = a.S,
                                           !.volumeBlocks = a.B], near, s + 1)
             ELSE ShelveFrom(
                    awardXP(
                      [p.W EXCEPT !.shelves = a.S, !.volumeBlocks = a.B,
                                  !.stats.volumeBlocksShelved = @ + 1,
                                  !.chaosLevel = ChaosAfterShelve(@)],
                      10),
                    near, s + 1)

\* checkVolumeBlockShelving(), lines 838-864
checkVolumeBlockShelving(W, near) ==
    IF Len(W.carriedVolumeBlocks) = 0 THEN W
    ELSE ShelveFrom(W, near, 1)

\* shelf.volumeBlocks.includes(volumeBlock)
Includes(S, s, b) == \E i \in 1..Len(S[s].slots) : S[s].slots[i] = b

\* validateVolumeBlockStates(), lines 947-986: the blocks behind each of its
\* three console.error reports
validateVolumeBlockStates(S, B) ==
    [invalid |-> {b \in DOMAIN B : B[b].isShelved /\ B[b].isHeld},
     notInShelf |-> {b \in DOMAIN B :
                       /\ B[b].isShelved /\ ~B[b].isHeld
                       /\ ~\E s \in DOMAIN S : Includes(S, s, b)},
     noHolder |-> {b \in DOMAIN B :
                     /\ ~B[b].isShelved /\ B[b].isHeld
                     /\ B[b].holder = Null}]

\* render -> shelf.render -> renderVolumeBlocks, for every shelf from s on
RECURSIVE RenderFrom(_, _, _)
RenderFrom(S, B, s) ==
    IF s > Len(S) THEN S
    ELSE RenderFrom(renderVolumeBlocks(S, B, s), B, s + 1)

----------------------------------------------------------------------------
(* SpecShelf: the Shelf methods under an arbitrary caller.  The slot array  *)
(* of a shelf is written by these methods only, so every sequence of world  *)
(* generation, thefts and shelvings of the game is one of these call        *)
(* sequences.                                                               *)

NoCall == [op |-> "none", shelf |-> 0, arg |-> 0, ret |-> 0]

\* The shelves as constructed (all slots null) with any assignment of
\* colors (generateVolumeVaultLayout shuffles the color distribution), and
\* for each shelf its capacity blocks of the shelf's color, newly created.
ShelfInit ==
    /\ shelves \in [ShelfIds -> {NewShelf(c) : c \in Colors}]
    /\ volumeBlocks =
           [b \in BlockIds |-> NewVolumeBlock(shelves[HomeShelf(b)].color)]
    /\ lastCall = NoCall
    /\ SessionStart
    /\ Constructed

\* shelf.addVolumeBlock(volumeBlock), called with a block that is not on a
\* shelf (a new block in generateVolumeVaultLayout, a block taken from the
\* player in checkVolumeBlockShelving).
AddCall(s, b) ==
    /\ ~volumeBlocks[b].isShelved
    /\ LET r == addVolumeBlock(shelves, volumeBlocks, s, b)
       IN  /\ shelves' = r.S
           /\ volumeBlocks' = r.B
           /\ lastCall' = [op |-> "add", shelf |-> s, arg |-> b,
                           ret |-> IF r.ret THEN 1 ELSE 0]
           /\ UNCHANGED <<sessionVars, agentVars, twin, schedule, placed, frameVars,
                     levelVars>>

\* shelf.removeVolumeBlock(index) with any index, in range or not.
RemoveCall(s, index) ==
    LET r == removeVolumeBlock(shelves, volumeBlocks, s, index)
    IN  /\ shelves' = r.S
        /\ volumeBlocks' = r.B
        /\ lastCall' = [op |-> "remove", shelf |-> s, arg |-> index,
                        ret |-> r.ret]
        /\ UNCHANGED <<sessionVars, agentVars, twin, schedule, placed, frameVars,
                     levelVars>>

\* shelf.removeRandomVolumeBlock() with the random draw rnd.
RemoveRandomCall(s, rnd) ==
    LET r == removeRandomVolumeBlock(shelves, volumeBlocks, s, rnd)
    IN  /\ shelves' = r.S
        /\ volumeBlocks' = r.B
        /\ lastCall' = [op |-> "removeRandom", shelf |-> s, arg |-> rnd,
                        ret |-> r.ret]
        /\ UNCHANGED <<sessionVars, agentVars, twin, schedule, placed, frameVars,
                     levelVars>>

\* shelf.render(...) -> renderVolumeBlocks.
RenderCall(s) ==
    /\ shelves' = renderVolumeBlocks(shelves, volumeBlocks, s)
    /\ volumeBlocks' = volumeBlocks
    /\ lastCall' = [op |-> "render", shelf |-> s, arg |-> 0, ret |-> 0]
    /\ UNCHANGED <<sessionVars, agentVars, twin, schedule, placed, frameVars,
                     levelVars>>

ShelfNext ==
    \/ \E s \in ShelfIds, b \in BlockIds : AddCall(s, b)
    \/ \E s \in ShelfIds, index \in (-1)..Capacity : RemoveCall(s, index)
    \/ \E s \in ShelfIds, rnd \in RandDraws : RemoveRandomCall(s, rnd)
    \/ \E s \in ShelfIds : RenderCall(s)

SpecShelf == ShelfInit /\ [][ShelfNext]_vars

----------------------------------------------------------------------------
(* The head of PlayingState.update and the PausedState *)

\* A mutation of UpdateEconomy: the timer is not advanced.
UpdateEconomyTimerStill(dt) ==
    LET elapsed == elapsedTime
    IN  IF elapsed >= targetTime
          THEN [elapsedTime |-> elapsed, chaosLevel |-> chaosLevel,
                outcome |-> "won"]
          ELSE LET c == updateChaos(chaosLevel, volumeBlocks, elapsed,
                                    chaosDampening, dt)
               IN  [elapsedTime |-> elapsed, chaosLevel |-> c,
                    outcome |-> IF c >= MaxChaosUnits THEN "lost" ELSE "playing"]

\* A mutation of UpdateEconomy: the game is won only when the elapsed time
\* exceeds targetTime.
UpdateEconomyWinStrict(dt) ==
    LET elapsed == elapsedTime + dt
    IN  IF elapsed > targetTime
          THEN [elapsedTime |-> elapsed, chaosLevel |-> chaosLevel,
                outcome |-> "won"]
          ELSE LET c == updateChaos(chaosLevel, volumeBlocks, elapsed,
                                    chaosDampening, dt)
               IN  [elapsedTime |-> elapsed, chaosLevel |-> c,
                    outcome |-> IF c >= MaxChaosUnits THEN "lost" ELSE "playing"]

\* A mutation of UpdateEconomy: the game is lost only when the chaos
\* exceeds maxChaos.
UpdateEconomyLoseStrict(dt) ==
    LET elapsed == elapsedTime + dt
    IN  IF elapsed >= targetTime
          THEN [elapsedTime |-> elapsed, chaosLevel |-> chaosLevel,
                outcome |-> "won"]
          ELSE LET c == updateChaos(chaosLevel, volumeBlocks, elapsed,
                                    chaosDampening, dt)
               IN  [elapsedTime |-> elapsed, chaosLevel |-> c,
                    outcome |-> IF c > MaxChaosUnits THEN "lost" ELSE "playing"]

\* update(deltaTime), lines 239-255: the timer, the win test, the chaos
\* economy and the lose test.  The gameData fields after them.
UpdateEconomy(dt) ==
    LET elapsed == elapsedTime + dt
    IN  IF elapsed >= targetTime
          THEN [elapsedTime |-> elapsed, chaosLevel |-> chaosLevel,
                outcome |-> "won"]
          ELSE LET c == updateChaos(chaosLevel, volumeBlocks, elapsed,
                                    chaosDampening, dt)
               IN  [elapsedTime |-> elapsed, chaosLevel |-> c,
                    outcome |-> IF c >= MaxChaosUnits THEN "lost" ELSE "playing"]

\* A mutation of UpdateHead: a paused game is updated like a running one.
UpdateHeadNoPauseTest(dt, pauseKey) ==
    IF pauseKey THEN "pause"
    ELSE IF UpdateEconomy(dt).outcome # "playing" THEN "ended"
    ELSE "run"

\* What update(deltaTime) does before the entities are updated:
\*   "pause"   the pause key is pressed: pushState('paused') and return
\*   "paused"  gameData.isPaused: return
\*   "ended"   the win or the lose test ended the game: return
\*   "run"     the tick goes on with the entity updates
UpdateHead(dt, pauseKey) ==
    IF pauseKey THEN "pause"
    ELSE IF isPaused THEN "paused"
    ELSE IF UpdateEconomy(dt).outcome # "playing" THEN "ended"
    ELSE "run"

\* PausedState.exit(), through resume() -> popState()
PausedExit == isPaused' = FALSE

\* PausedState.enter(), through pushState('paused')
PausedEnter == isPaused' = TRUE

----------------------------------------------------------------------------
(* SpecChaos: the chaos economy on sampled inputs.  A session's chaos       *)
(* level, elapsed time, dampening and block places are drawn from sets that *)
(* hold the corners of the economy (chaos next to 0 and next to maxChaos,   *)
(* elapsed time next to each rate tier and next to targetTime), and the     *)
(* steps that write chaosLevel are applied to them.                         *)

\* A block at one of the places a block can be in.
BlockAt(kind, b) ==
    LET new == NewVolumeBlock(Palette[((HomeShelf(b) - 1) % NumColors) + 1])
    IN  CASE kind = "shelf"  -> [new EXCEPT !.isShelved = TRUE, !.shelf = HomeShelf(b)]
          [] kind = "floor"  -> new
          [] kind = "kid"    -> [new EXCEPT !.isHeld = TRUE,
                                               !.holder = ((b - 1) % initialKids) + 1]
          [] kind = "player" -> [new EXCEPT !.isHeld = TRUE, !.holder = Player]

BlockKinds == {"shelf", "floor", "kid", "player"}

VaryingBlocks == 1..Min(ChaosBlocks, NumShelves * Capacity)

\* The shelves that go with blocks B: a shelved block stands in the slot it
\* was created for.
ShelvesOf(B) ==
    [s \in ShelfIds |->
        [NewShelf(Palette[((s - 1) % NumColors) + 1]) EXCEPT !.slots =
            [i \in 1..Capacity |->
                LET b == (s - 1) * Capacity + i
                IN  IF B[b].isShelved THEN b ELSE Null]]]

ChaosSamples ==
    {0, ChaosScale \div 200, (6 * ChaosScale) \div 10, 50 * ChaosScale,
     MaxChaosUnits - 100}

ElapsedSamples ==
    {0, Seconds(3 * 60) - 1, Seconds(5 * 60) - 1, Seconds(5 * 60),
     targetTime - 1}

DampeningSamples == {0, 30, 100}

DeltaTimes == {1, 20}

\* The two kids of initializeLevel; kid i carries the first block, if any,
\* whose holder it is.
KidsOf(B) ==
    [i \in 1..initialKids |->
        LET held == {b \in BlockIds : B[b].isHeld /\ B[b].holder = i}
        IN  [NewKid(1) EXCEPT !.carriedVolumeBlock =
                IF held = {} THEN Null
                ELSE CHOOSE b \in held : \A o \in held : b <= o]]

\* The blocks of B held by the player, in the order of their ids.
RECURSIVE CarriedOf(_, _)
CarriedOf(B, b) ==
    IF b > Len(B) THEN << >>
    ELSE IF B[b].isHeld /\ B[b].holder = Player
      THEN <<b>> \o CarriedOf(B, b + 1)
    ELSE CarriedOf(B, b + 1)

ChaosInit ==
    /\ \E kinds \in [VaryingBlocks -> BlockKinds] :
         volumeBlocks = [b \in BlockIds |->
                            IF b \in VaryingBlocks THEN BlockAt(kinds[b], b)
                            ELSE BlockAt("shelf", b)]
    /\ shelves = ShelvesOf(volumeBlocks)
    /\ kids = KidsOf(volumeBlocks)
    /\ carriedVolumeBlocks = CarriedOf(volumeBlocks, 1)
    /\ maxKids = 3
    /\ kidSpawnTimer = Seconds(15)
    /\ lastSpawn = NoSpawn
    /\ history = NoHistories(kids)
    /\ body = NoBody
    /\ twin = NoTwin
    /\ schedule = NoSchedule
    /\ placed = NoPlace
    /\ chaosLevel \in ChaosSamples
    /\ elapsedTime \in ElapsedSamples
    /\ chaosDampening \in DampeningSamples
    /\ isPaused = FALSE
    /\ outcome = "playing"
    /\ ticks = 0
    /\ stats = NoStats
    /\ LevelOne
    /\ pc = "idle" /\ kidIndex = 0 /\ deltaTime = 0
    /\ lastCall = NoCall

\* update(deltaTime) up to the lose test (lines 216-255).  lastCall.ret is 1
\* when the call got past the pause tests and advanced the timer.
ChaosUpdate(dt, pauseKey) ==
    /\ outcome = "playing" /\ ticks < MaxChaosSteps
    /\ ticks' = ticks + 1
    /\ lastCall' = [op |-> "update", shelf |-> 0, arg |-> dt,
                    ret |-> IF UpdateHead(dt, pauseKey) \in {"run", "ended"}
                              THEN 1 ELSE 0]
    /\ UNCHANGED <<shelfVars, chaosDampening, stats, agentVars, twin, schedule, placed,
                   frameVars,
                   levelVars>>
    /\ CASE UpdateHead(dt, pauseKey) = "pause" ->
              PausedEnter /\ UNCHANGED <<chaosLevel, elapsedTime, outcome>>
         [] UpdateHead(dt, pauseKey) = "paused" ->
              UNCHANGED <<chaosLevel, elapsedTime, outcome, isPaused>>
         [] OTHER ->
              /\ elapsedTime' = UpdateEconomy(dt).elapsedTime
              /\ chaosLevel' = UpdateEconomy(dt).chaosLevel
              /\ outcome' = UpdateEconomy(dt).outcome
              /\ UNCHANGED isPaused

\* PausedState.resume()
ChaosResume ==
    /\ isPaused /\ outcome = "playing" /\ ticks < MaxChaosSteps
    /\ PausedExit
    /\ ticks' = ticks + 1
    /\ lastCall' = [op |-> "resume", shelf |-> 0, arg |-> 0, ret |-> 0]
    /\ UNCHANGED <<shelfVars, chaosLevel, elapsedTime, outcome, chaosDampening,
                   stats, agentVars, twin, schedule, placed, frameVars, levelVars>>

\* What a step of SpecChaos after the lose test leaves alone.
ChaosStepFrame ==
    /\ outcome = "playing" /\ ~isPaused /\ ticks < MaxChaosSteps
    /\ ticks' = ticks + 1
    /\ UNCHANGED <<elapsedTime, isPaused, outcome, chaosDampening, maxKids,
                   kidSpawnTimer, lastSpawn, body, twin, schedule, placed, frameVars,
                   xpMultiplier>>

\* checkVolumeBlockPickup() with floor block b in the pickup radius.
ChaosPickup(b) ==
    /\ ~volumeBlocks[b].isHeld /\ ~volumeBlocks[b].isShelved
    /\ ChaosStepFrame
    /\ SetWorld(checkVolumeBlockPickup(World, {b}))
    /\ lastCall' = [op |-> "pickup", shelf |-> 0, arg |-> b, ret |-> 1]
    /\ UNCHANGED history

\* checkVolumeBlockSnatching() with the carrying kid i in the snatch radius.
ChaosSnatch(i) ==
    /\ kids[i].carriedVolumeBlock # Null
    /\ ChaosStepFrame
    /\ SetWorld(checkVolumeBlockSnatching(World, {i}))
    /\ lastCall' = [op |-> "snatch", shelf |-> 0, arg |-> i, ret |-> 1]
    /\ history' = Settled(history, kids')

\* checkVolumeBlockShelving() with shelf s in the return radius of a player
\* who carries blocks.
ChaosShelve(s) ==
    /\ Len(carriedVolumeBlocks) > 0
    /\ ChaosStepFrame
    /\ SetWorld(checkVolumeBlockShelving(World, {s}))
    /\ lastCall' = [op |-> "shelve", shelf |-> s, arg |-> 0, ret |-> 1]
    /\ UNCHANGED history

ChaosNext ==
    \/ \E dt \in DeltaTimes, pauseKey \in BOOLEAN : ChaosUpdate(dt, pauseKey)
    \/ ChaosResume
    \/ \E b \in BlockIds : ChaosPickup(b)
    \/ \E i \in 1..initialKids : ChaosSnatch(i)
    \/ \E s \in ShelfIds : ChaosShelve(s)

SpecChaos == ChaosInit /\ [][ChaosNext]_vars

----------------------------------------------------------------------------
(* SpecXP: the XP awards on sampled inputs.  The player's level and XP, the *)
(* XP multiplier and the elapsed time are drawn from sets that hold the     *)
(* corners of awardXP (XP next to the requirement of the level, elapsed     *)
(* time next to the end of the early boost, a multiplier large enough for   *)
(* one award to cross two levels), and the three interactions that award XP *)
(* are applied to them.                                                     *)

XpLevels == 1..3

XpSamples(level) == {0, 95, XpRequirement(level) - 1}

XpMultipliers == {100, 110, 150, 2000}

XpElapsedSamples == {0, Seconds(120) - 1, Seconds(120), Seconds(10 * 60)}

XPInit ==
    /\ \E kinds \in [VaryingBlocks -> BlockKinds] :
         volumeBlocks = [b \in BlockIds |->
                            IF b \in VaryingBlocks THEN BlockAt(kinds[b], b)
                            ELSE BlockAt("shelf", b)]
    /\ shelves = ShelvesOf(volumeBlocks)
    /\ kids = KidsOf(volumeBlocks)
    /\ carriedVolumeBlocks = CarriedOf(volumeBlocks, 1)
    /\ maxKids = 3
    /\ kidSpawnTimer = Seconds(15)
    /\ lastSpawn = NoSpawn
    /\ history = NoHistories(kids)
    /\ body = NoBody
    /\ twin = NoTwin
    /\ schedule = NoSchedule
    /\ placed = NoPlace
    /\ chaosLevel = 0
    /\ elapsedTime \in XpElapsedSamples
    /\ chaosDampening = 0
    /\ isPaused = FALSE
    /\ outcome = "playing"
    /\ ticks = 0
    /\ stats = NoStats
    /\ playerLevel \in XpLevels
    /\ xpToNext = XpRequirement(playerLevel)
    /\ xp \in XpSamples(playerLevel)
    /\ xpMultiplier \in XpMultipliers
    /\ upgradeSelections = playerLevel - 1
    /\ pc = "idle" /\ kidIndex = 0 /\ deltaTime = 0
    /\ lastCall = NoCall

XPNext ==
    \/ \E b \in BlockIds : ChaosPickup(b)
    \/ \E i \in 1..initialKids : ChaosSnatch(i)
    \/ \E s \in ShelfIds : ChaosShelve(s)

SpecXP == XPInit /\ [][XPNext]_vars

----------------------------------------------------------------------------
(* SpecSpawn: the wave and spawn scheduler over a whole session.  The kids *)
(* are added by updateKidSpawning only and never removed, and maxKids is    *)
(* written by updateKidSpawning only, so the population of a session is the *)
(* one of these runs, whatever the kids, the player and the blocks do.  The *)
(* frames are long (SpawnDeltaTimes) so that a session fits; no block leaves *)
(* its shelf, so chaos stays 0 and the session ends by the win test.        *)

SpawnDeltaTimes == {Seconds(5), Seconds(60)}

\* enter() -> initializeLevel(): every block on the shelf it was created
\* for, the first kids, a new session.
LevelWorld ==
    /\ volumeBlocks = [b \in BlockIds |-> BlockAt("shelf", b)]
    /\ shelves = ShelvesOf(volumeBlocks)
    /\ LevelKids
    /\ carriedVolumeBlocks = << >>
    /\ SessionStart
    /\ pc = "idle" /\ kidIndex = 0 /\ deltaTime = 0
    /\ lastCall = NoCall
    /\ schedule = NoSchedule
    /\ placed = NoPlace

\* The session that starts there, followed alone.
LevelStart == LevelWorld /\ twin = NoTwin

\* update(deltaTime) of a frame in which no kid, block or player changes:
\* the timer, the win test, the chaos economy, the lose test and
\* updateKidSpawning.  lastCall.ret is 1 when a kid was spawned, and
\* lastCall.arg is then the place in spawnPoints of the point drawn.
SpawnUpdate(dt) ==
    /\ outcome = "playing" /\ ~isPaused
    /\ elapsedTime' = UpdateEconomy(dt).elapsedTime
    /\ chaosLevel' = UpdateEconomy(dt).chaosLevel
    /\ outcome' = UpdateEconomy(dt).outcome
    /\ LET r == updateKidSpawning(kids, maxKids, kidSpawnTimer,
                                  elapsedTime + dt, dt)
       IN  IF UpdateEconomy(dt).outcome = "playing"
             THEN /\ kids' = r.kids
                  /\ maxKids' = r.maxKids
                  /\ kidSpawnTimer' = r.kidSpawnTimer
                  /\ IF Len(r.kids) > Len(kids)
                       THEN \E p \in 0..(Len(spawnPoints) - 1) :
                              /\ lastSpawn' = SpawnPosition(p)
                              /\ lastCall' = [op |-> "spawning", shelf |-> 0,
                                              arg |-> p + 1, ret |-> 1]
                       ELSE /\ lastSpawn' = lastSpawn
                            /\ lastCall' = [op |-> "spawning", shelf |-> 0,
                                            arg |-> 0, ret |-> 0]
                  /\ history' = IF Len(r.kids) > Len(kids)
                                   THEN Append(history, NoHistory) ELSE history
                  /\ schedule' = Scheduled(schedule, kids, r, dt)
                  /\ UNCHANGED placed
             ELSE /\ UNCHANGED <<kids, maxKids, kidSpawnTimer, lastSpawn,
                                 history, schedule, placed>>
                  /\ lastCall' = [op |-> "update", shelf |-> 0, arg |-> dt,
                                  ret |-> 1]
    /\ UNCHANGED <<shelfVars, isPaused, chaosDampening, ticks, stats,
                   carriedVolumeBlocks, body, twin, frameVars, levelVars>>

SpawnNext == \E dt \in SpawnDeltaTimes : SpawnUpdate(dt)

SpecSpawn == LevelStart /\ [][SpawnNext]_vars

----------------------------------------------------------------------------
(* Spec: a session of the whole game.  One update() call is the sequence of *)
(* its steps, in the order of lines 216-303: the head (pause, timer, win    *)
(* test, chaos economy, lose test), each kid's update, updateKidSpawning,   *)
(* checkVolumeBlockPickup, checkVolumeBlockSnatching and                    *)
(* checkVolumeBlockShelving; pc names the step that comes next.  Positions  *)
(* are not modelled: every distance test of a step is an input of the step, *)
(* true or false, as every Math.random() draw is.  The player's and the     *)
(* blocks' own updates move them and change nothing else.                   *)

GameDeltaTimes == {TimeScale \div 5, TimeScale \div 2, 5 * TimeScale}

\* The two ends of Math.random(), for the draws that are compared with a
\* threshold.
ExtremeDraws == {0, RandSteps - 1}

\* The distances to the player on either side of the two tests: of
\* dist < playerDetectionRange (lines 147 and 311) and of
\* dist > playerDetectionRange * 1.5 (line 274).
NearDistances == {playerDetectionRange - 1, playerDetectionRange}

FarDistances ==
    {(3 * playerDetectionRange) \div 2, (3 * playerDetectionRange) \div 2 + 1}

\* The inputs that the update of kid k can read.
KidInputs(k) ==
    LET carrying == k.carriedVolumeBlock # Null
        holds == IF carrying \/ k.state = "stealing" THEN ExtremeDraws ELSE {0}
    IN  CASE k.state = "wandering" ->
               {KidInput(d, seen, FALSE, 0, FALSE, 0, h) :
                    d \in NearDistances, seen \in SUBSET ShelfIds, h \in holds}
          [] k.state = "fleeing" ->
               {KidInput(d, {}, FALSE, 0, FALSE, sc, h) :
                    d \in FarDistances,
                    sc \in (IF carrying THEN ExtremeDraws ELSE {0}),
                    h \in holds}
          [] k.state = "stealing" ->
               {KidInput(d, {}, tch, slot, knock, 0, h) :
                    d \in NearDistances, tch \in BOOLEAN, slot \in RandDraws,
                    knock \in BOOLEAN, h \in holds}

\* The second run.  It starts from the same world as the first and every
\* step of update() is applied to it with the arguments of the first run's
\* step: the same deltaTime, the same pause key, the same distance tests and
\* the same draws.  What the two runs do not share is left to differ: the
\* first run's frames are rendered at any time between two update() calls
\* (render() writes the shelves' slots, Shelf.js lines 141-163), the second
\* run's frames never are.  rendered tells that the first run has rendered
\* a frame.
TwinOf(W, cap, timer, end) ==
    [on |-> TRUE, rendered |-> FALSE, W |-> W, maxKids |-> cap,
     kidSpawnTimer |-> timer, outcome |-> end]

\* update(deltaTime), lines 216-255, in the second run
TwinUpdate(dt, pauseKey) ==
    IF ~twin.on \/ pauseKey \/ isPaused THEN twin
    ELSE LET elapsed == twin.W.elapsedTime + dt
             c == updateChaos(twin.W.chaosLevel, twin.W.volumeBlocks, elapsed,
                              chaosDampening, dt)
         IN  IF elapsed >= targetTime
               THEN [twin EXCEPT !.W.elapsedTime = elapsed, !.outcome = "won"]
               ELSE [twin EXCEPT !.W.elapsedTime = elapsed,
                                 !.W.chaosLevel = c,
                                 !.outcome = IF c >= MaxChaosUnits THEN "lost"
                                             ELSE "playing"]

\* lines 272-276 in the second run: kid.update(deltaTime) of kid i
TwinKid(i, dt, in) ==
    IF ~twin.on THEN twin ELSE [twin EXCEPT !.W = update(twin.W, i, dt, in)]

\* line 284 in the second run
TwinSpawning(dt) ==
    IF ~twin.on THEN twin
    ELSE LET r == updateKidSpawning(twin.W.kids, twin.maxKids,
                                    twin.kidSpawnTimer, twin.W.elapsedTime, dt)
         IN  [twin EXCEPT !.W.kids = r.kids, !.maxKids = r.maxKids,
                          !.kidSpawnTimer = r.kidSpawnTimer]

\* line 287 in the second run
TwinPickup(near) ==
    IF ~twin.on THEN twin
    ELSE [twin EXCEPT !.W = checkVolumeBlockPickup(twin.W, near)]

\* line 290 in the second run
TwinSnatching(near) ==
    IF ~twin.on THEN twin
    ELSE [twin EXCEPT !.W = checkVolumeBlockSnatching(twin.W, near)]

\* line 293 in the second run
TwinShelving(near) ==
    IF ~twin.on THEN twin
    ELSE [twin EXCEPT !.W = checkVolumeBlockShelving(twin.W, near)]

\* A frame of the first run is rendered.
TwinUnrendered == IF ~twin.on THEN twin ELSE [twin EXCEPT !.rendered = TRUE]

\* update(deltaTime), lines 216-255, and what comes next.  lastCall.ret is
\* 2 when the pause key was pressed, 0 when the call returned because the
\* game is paused, 1 when it advanced the timer.
GameUpdate(dt, pauseKey) ==
    /\ pc = "idle" /\ outcome = "playing" /\ ticks < MaxTicks
    /\ ticks' = ticks + 1
    /\ lastCall' = [op |-> "update", shelf |-> 0, arg |-> dt,
                    ret |-> IF UpdateHead(dt, pauseKey) \in {"run", "ended"}
                              THEN 1
                            ELSE IF UpdateHead(dt, pauseKey) = "pause" THEN 2
                            ELSE 0]
    /\ twin' = TwinUpdate(dt, pauseKey)
    /\ UNCHANGED <<schedule, placed>>
    /\ UNCHANGED <<shelfVars, chaosDampening, stats, agentVars, levelVars>>
    /\ CASE UpdateHead(dt, pauseKey) = "pause" ->
              /\ PausedEnter
              /\ UNCHANGED <<chaosLevel, elapsedTime, outcome, frameVars>>
         [] UpdateHead(dt, pauseKey) = "paused" ->
              UNCHANGED <<chaosLevel, elapsedTime, outcome, isPaused, frameVars>>
         [] OTHER ->
              /\ elapsedTime' = UpdateEconomy(dt).elapsedTime
              /\ chaosLevel' = UpdateEconomy(dt).chaosLevel
              /\ outcome' = UpdateEconomy(dt).outcome
              /\ UNCHANGED isPaused
              /\ IF UpdateHead(dt, pauseKey) = "run"
                   THEN pc' = "kids" /\ kidIndex' = 1 /\ deltaTime' = dt
                   ELSE UNCHANGED frameVars

\* PausedState.resume()
GameResume ==
    /\ pc = "idle" /\ isPaused /\ outcome = "playing"
    /\ PausedExit
    /\ lastCall' = [op |-> "resume", shelf |-> 0, arg |-> 0, ret |-> 0]
    /\ UNCHANGED <<shelfVars, chaosLevel, elapsedTime, outcome, chaosDampening,
                   ticks, stats, agentVars, twin, schedule, placed, frameVars,
                   levelVars>>

\* What a step of update() after the lose test leaves alone.
StepFrame ==
    UNCHANGED <<elapsedTime, isPaused, outcome, chaosDampening, ticks, deltaTime,
                xpMultiplier, body>>

\* lines 272-276: kid.update(deltaTime) of the next kid of the list.
\* lastCall.ret is the kid's distance to the player.
KidStep ==
    /\ pc = "kids"
    /\ \E in \in KidInputs(kids[kidIndex]) :
           /\ SetWorld(update(World, kidIndex, deltaTime, in))
           /\ lastCall' = [op |-> "kid", shelf |-> 0, arg |-> kidIndex,
                           ret |-> in.dist]
           /\ history' = [history EXCEPT ![kidIndex] =
                             Observed(@, kids[kidIndex], kids'[kidIndex],
                                      deltaTime, in)]
           /\ twin' = TwinKid(kidIndex, deltaTime, in)
           /\ UNCHANGED <<schedule, placed>>
    /\ IF kidIndex < Len(kids)
         THEN kidIndex' = kidIndex + 1 /\ pc' = pc
         ELSE kidIndex' = 0 /\ pc' = "spawning"
    /\ UNCHANGED <<maxKids, kidSpawnTimer, lastSpawn>>
    /\ StepFrame

\* line 284: this.updateKidSpawning(deltaTime)
SpawningStep ==
    /\ pc = "spawning"
    /\ LET r == updateKidSpawning(kids, maxKids, kidSpawnTimer, elapsedTime,
                                  deltaTime)
       IN  /\ kids' = r.kids
           /\ maxKids' = r.maxKids
           /\ kidSpawnTimer' = r.kidSpawnTimer
           /\ IF Len(r.kids) > Len(kids)
                THEN \E p \in 0..(Len(spawnPoints) - 1) :
                       /\ lastSpawn' = SpawnPosition(p)
                       /\ lastCall' = [op |-> "spawning", shelf |-> 0,
                                       arg |-> p + 1, ret |-> 1]
                ELSE /\ lastSpawn' = lastSpawn
                     /\ lastCall' = [op |-> "spawning", shelf |-> 0,
                                     arg |-> 0, ret |-> 0]
           /\ history' = IF Len(r.kids) > Len(kids)
                            THEN Append(history, NoHistory) ELSE history
           /\ schedule' = Scheduled(schedule, kids, r, deltaTime)
           /\ UNCHANGED placed
    /\ twin' = TwinSpawning(deltaTime)
    /\ pc' = "pickup"
    /\ UNCHANGED <<shelfVars, chaosLevel, stats, carriedVolumeBlocks, kidIndex,
                   xp, xpToNext, playerLevel, upgradeSelections>>
    /\ StepFrame

\* line 287: this.checkVolumeBlockPickup()
PickupStep ==
    /\ pc = "pickup"
    /\ \E near \in SUBSET BlockIds :
           /\ SetWorld(checkVolumeBlockPickup(World, near))
           /\ twin' = TwinPickup(near)
           /\ UNCHANGED <<schedule, placed>>
    /\ lastCall' = [op |-> "pickup", shelf |-> 0, arg |-> 0,
                    ret |-> Len(carriedVolumeBlocks') - Len(carriedVolumeBlocks)]
    /\ pc' = "snatching"
    /\ UNCHANGED <<maxKids, kidSpawnTimer, lastSpawn, kidIndex, history>>
    /\ StepFrame

\* line 290: this.checkVolumeBlockSnatching()
SnatchingStep ==
    /\ pc = "snatching"
    /\ \E near \in SUBSET (1..Len(kids)) :
           /\ SetWorld(checkVolumeBlockSnatching(World, near))
           /\ twin' = TwinSnatching(near)
           /\ UNCHANGED <<schedule, placed>>
    /\ lastCall' = [op |-> "snatch", shelf |-> 0, arg |-> 0,
                    ret |-> Len(carriedVolumeBlocks') - Len(carriedVolumeBlocks)]
    /\ pc' = "shelving"
    /\ history' = Settled(history, kids')
    /\ UNCHANGED <<maxKids, kidSpawnTimer, lastSpawn, kidIndex>>
    /\ StepFrame

\* line 293: this.checkVolumeBlockShelving(), the last step of update()
\* that changes the world
ShelvingStep ==
    /\ pc = "shelving"
    /\ \E near \in SUBSET ShelfIds :
           /\ SetWorld(checkVolumeBlockShelving(World, near))
           /\ twin' = TwinShelving(near)
           /\ UNCHANGED <<schedule, placed>>
    /\ lastCall' = [op |-> "shelve", shelf |-> 0, arg |-> 0,
                    ret |-> Len(carriedVolumeBlocks) - Len(carriedVolumeBlocks')]
    /\ pc' = "idle"
    /\ UNCHANGED <<maxKids, kidSpawnTimer, lastSpawn, kidIndex, history>>
    /\ StepFrame

\* render(): every shelf's render(), between two update() calls
RenderStep ==
    /\ pc = "idle"
    /\ shelves' = RenderFrom(shelves, volumeBlocks, 1)
    /\ lastCall' = [op |-> "render", shelf |-> 0, arg |-> 0, ret |-> 0]
    /\ twin' = TwinUnrendered
    /\ UNCHANGED <<schedule, placed>>
    /\ UNCHANGED <<volumeBlocks, sessionVars, agentVars, frameVars, levelVars>>

GameNext ==
    \/ \E dt \in GameDeltaTimes, pauseKey \in BOOLEAN : GameUpdate(dt, pauseKey)
    \/ GameResume
    \/ KidStep
    \/ SpawningStep
    \/ PickupStep
    \/ SnatchingStep
    \/ ShelvingStep
    \/ RenderStep

Spec == LevelStart /\ [][GameNext]_vars

\* SpecTwin: the same session in two runs, the second one beside the first.
TwinStart ==
    /\ LevelWorld
    /\ twin = TwinOf(World, maxKids, kidSpawnTimer, outcome)

SpecTwin == TwinStart /\ [][GameNext]_vars

----------------------------------------------------------------------------
(* SpecTick: one update() call of the whole game on sampled sessions.  The  *)
(* frames of a session are too many to explore from its start, so the state *)
(* between two update() calls is drawn from sets that hold what a session   *)
(* runs into: blocks on their shelf, on the floor, carried by a kid or by   *)
(* the player; kids in each state of their state machine, carrying or not,  *)
(* with a carry timer at its start or at the minimal carry time; chaos at 0 *)
(* and next to maxChaos; an elapsed time early in the session and one short *)
(* frame, or a tenth of a second more, before targetTime; the game running  *)
(* or paused.  The last update() call of the MaxTicks explored is applied. *)

\* dropVolumeBlockTimer of a carrying kid: taken in the last update, a
\* short frame long, and carried for dropVolumeBlockMinTime.
DropTimerSamples == {TimeScale \div 2, dropVolumeBlockMinTime(1)}

\* What an interrupted episode leaves behind: the grab delay of a kid that
\* the player chased from the shelf it was waiting at (updateStealing, lines
\* 308-320, leaves grabDelay as it is), the carry timer of a kid that dropped
\* its block while Fleeing (updateFleeing, lines 293-296, leaves
\* dropVolumeBlockTimer as it is), and the time a kid whose timer started
\* from such a rest has carried its block when the timer shows
\* dropVolumeBlockMinTime.
LeftGrabDelay == grabDelayTime(1) \div 2

LeftDropTimer == dropVolumeBlockMinTime(1)

LateCarry == dropVolumeBlockMinTime(1) - 3 * (TimeScale \div 2)

\* The states of kid i when the blocks are B.  A kid that carries a block
\* took it in updateStealing, which started its steal cooldown; it has been
\* Fleeing since, or Wandering again once the player was far.  A kid that carries none is Wandering, Fleeing
\* (the player came close) or Stealing from the shelf it saw.
KidSamples(B, i) ==
    LET k == KidsOf(B)[i]
    IN  IF k.carriedVolumeBlock # Null
          THEN {[k EXCEPT !.state = st, !.dropVolumeBlockTimer = t,
                          !.volumeBlockStealCooldown =
                              IF t = TimeScale \div 2
                                THEN volumeBlockStealCooldownTime(1) ELSE 0] :
                    st \in {"wandering", "fleeing"}, t \in DropTimerSamples}
          ELSE {k, [k EXCEPT !.state = "fleeing"],
                [k EXCEPT !.state = "stealing", !.target = 1]}
               \cup (IF i # 1 THEN {}
                     ELSE {[k EXCEPT !.state = "stealing", !.target = 1,
                                     !.grabDelay = LeftGrabDelay],
                           [k EXCEPT !.state = "stealing", !.target = 1,
                                     !.dropVolumeBlockTimer = LeftDropTimer]})

\* The histories that go with a sampled kid k: a carried block has been
\* carried for what the timer shows, or for less when the timer started
\* from a rest; a Stealing kid with a grab delay under way has waited for
\* what the delay has lost, or not at all when the delay is a rest.
HistorySamples(k) ==
    IF k.carriedVolumeBlock # Null
      THEN {[NoHistory EXCEPT !.carried = c] :
                c \in {k.dropVolumeBlockTimer}
                         \cup (IF k.dropVolumeBlockTimer = LeftDropTimer
                                 /\ k.state = "wandering"
                                THEN {LateCarry} ELSE {})}
    ELSE IF k.state = "stealing" /\ k.grabDelay > 0
      THEN {[NoHistory EXCEPT !.waited = w] :
                w \in {0, grabDelayTime(k.aggressionLevel) - k.grabDelay}}
    ELSE {NoHistory}

TickChaosSamples == {0, MaxChaosUnits - 100}

TickElapsedSamples ==
    {Seconds(60), targetTime - TimeScale \div 2 - 1, targetTime - TimeScale \div 2}

\* A block that the player may carry beside the varying ones, picked up
\* from the floor in an earlier update: the first block after them.
HandBlock == Min(ChaosBlocks + 1, NumShelves * Capacity)

TickInit ==
    /\ \E kinds \in [VaryingBlocks -> BlockKinds], hand \in {"shelf", "player"} :
         volumeBlocks = [b \in BlockIds |->
                            IF b \in VaryingBlocks THEN BlockAt(kinds[b], b)
                            ELSE IF b = HandBlock THEN BlockAt(hand, b)
                            ELSE BlockAt("shelf", b)]
    /\ shelves = ShelvesOf(volumeBlocks)
    /\ kids \in [1..initialKids -> UNION {KidSamples(volumeBlocks, i) :
                                               i \in 1..initialKids}]
    /\ \A i \in 1..initialKids : kids[i] \in KidSamples(volumeBlocks, i)
    /\ carriedVolumeBlocks = CarriedOf(volumeBlocks, 1)
    /\ maxKids = 3
    /\ kidSpawnTimer = Seconds(15)
    /\ lastSpawn = NoSpawn
    /\ history \in [1..initialKids -> UNION {HistorySamples(kids[i]) :
                                                  i \in 1..initialKids}]
    /\ \A i \in 1..initialKids : history[i] \in HistorySamples(kids[i])
    /\ body = NoBody
    /\ twin = NoTwin
    /\ schedule = [NoSchedule EXCEPT !.sinceSpawn = Seconds(15)]
    /\ placed = NoPlace
    /\ chaosLevel \in TickChaosSamples
    /\ elapsedTime \in TickElapsedSamples
    /\ chaosDampening = 0
    /\ isPaused \in BOOLEAN
    /\ outcome = "playing"
    /\ ticks = MaxTicks - 1
    /\ stats = NoStats
    /\ LevelOne
    /\ pc = "idle" /\ kidIndex = 0 /\ deltaTime = 0
    /\ lastCall = NoCall

SpecTick == TickInit /\ [][GameNext]_vars

----------------------------------------------------------------------------
(* SpecEnter: the sessions of Spec with the restart of the pause menu.  A   *)
(* restart makes a new PlayingState and enters it; the session that follows *)
(* is played on like the first one.  ticks counts the update() calls of the *)
(* run, over all its sessions.                                              *)

\* generateVolumeVaultLayout, lines 752-757: the blocks are created and
\* added to their shelves one by one, from block b on
RECURSIVE LayoutFrom(_, _, _)
LayoutFrom(S, B, b) ==
    IF b > NumShelves * Capacity THEN [S |-> S, B |-> B]
    ELSE LET r == addVolumeBlock(S, B, HomeShelf(b), b)
         IN  LayoutFrom(r.S, r.B, b + 1)

\* generateVolumeVaultLayout(), lines 712-770, when the shuffled color
\* distribution gives shelf s the color colors[s]
generateVolumeVaultLayout(colors) ==
    LayoutFrom([s \in ShelfIds |-> NewShelf(colors[s])],
               [b \in BlockIds |-> NewVolumeBlock(colors[HomeShelf(b)])], 1)

\* constructor, lines 12-31: the fields of a new PlayingState
NewPlayingState == [kids |-> << >>, maxKids |-> 3, kidSpawnTimer |-> 0]

\* initializeLevel(), lines 180-214, on the state P: the layout, the
\* initial kids pushed on this.kids, and the spawn timer
initializeLevel(P, colors) ==
    LET L == generateVolumeVaultLayout(colors)
    IN  [shelves |-> L.S, volumeBlocks |-> L.B,
         kids |-> P.kids \o [i \in 1..initialKids |-> NewKid(1)],
         maxKids |-> P.maxKids,
         kidSpawnTimer |-> Seconds(15)]

\* A mutation of enter: the statistics of the session before are kept.
enterKeepsStats(G, P, colors) ==
    LET level == initializeLevel(
                   [P EXCEPT !.kids = << >>, !.maxKids = 3,
                             !.kidSpawnTimer = 0], colors)
    IN  [chaosLevel |-> 0, playerLevel |-> 1, xp |-> 0, xpToNext |-> 100,
         elapsedTime |-> 0, isPaused |-> FALSE, stats |-> G.stats,
         level |-> level]

\* enter(), lines 65-110, of the state P when the gameData is G: the
\* entities are cleared (lines 70-73), the gameData is made anew (lines
\* 76-89), the spawn fields are reset (lines 92-95), and the level is
\* initialized
enter(G, P, colors) ==
    LET level == initializeLevel(
                   [P EXCEPT !.kids = << >>, !.maxKids = 3,
                             !.kidSpawnTimer = 0], colors)
    IN  [chaosLevel |-> 0, playerLevel |-> 1, xp |-> 0, xpToNext |-> 100,
         elapsedTime |-> 0, isPaused |-> FALSE, stats |-> NoStats,
         level |-> level]

\* game.gameData, as enter() finds it
GameData ==
    [chaosLevel |-> chaosLevel, playerLevel |-> playerLevel, xp |-> xp,
     xpToNext |-> xpToNext, elapsedTime |-> elapsedTime,
     isPaused |-> isPaused, stats |-> stats]

\* PausedState.restart(), part_000 lines 172-185: the state stack is
\* cleared, a new PlayingState is registered and changeState('playing')
\* enters it.  initializeLevel makes a new Player (lines 187-191), which
\* carries nothing and has the stats of a player without upgrades.
\* lastCall.arg is the elapsed time and lastCall.ret the number of kids of
\* the session that is left.
RestartStep ==
    /\ pc = "idle" /\ isPaused /\ outcome = "playing"
    /\ \E colors \in [ShelfIds -> Colors] :
          LET r == enter(GameData, NewPlayingState, colors)
          IN  /\ chaosLevel' = r.chaosLevel
              /\ playerLevel' = r.playerLevel
              /\ xp' = r.xp
              /\ xpToNext' = r.xpToNext
              /\ elapsedTime' = r.elapsedTime
              /\ isPaused' = r.isPaused
              /\ stats' = r.stats
              /\ shelves' = r.level.shelves
              /\ volumeBlocks' = r.level.volumeBlocks
              /\ kids' = r.level.kids
              /\ maxKids' = r.level.maxKids
              /\ kidSpawnTimer' = r.level.kidSpawnTimer
    /\ carriedVolumeBlocks' = << >>
    /\ xpMultiplier' = 100
    /\ chaosDampening' = 0
    /\ upgradeSelections' = 0
    /\ outcome' = "playing"
    /\ lastSpawn' = NoSpawn
    /\ history' = NoHistories(kids')
    /\ schedule' = NoSchedule
    /\ lastCall' = [op |-> "enter", shelf |-> 0, arg |-> elapsedTime,
                    ret |-> Len(kids)]
    /\ UNCHANGED <<ticks, body, twin, placed, frameVars>>

EnterNext == GameNext \/ RestartStep

SpecEnter == LevelStart /\ [][EnterNext]_vars

----------------------------------------------------------------------------
(* SpecSession: whole sessions to their end, with the pause.  The frames    *)
(* are those of SpecSpawn: no kid, block or player changes in them, so the  *)
(* blocks stay where the session finds them.  A session starts as enter()   *)
(* leaves it, or is taken up after a minute with blocks off their shelves.  *)
(* Fairness: the game is not left paused for ever, and unpaused frames in   *)
(* which the pause key is not pressed keep coming.                          *)

SessionDeltaTimes == {Seconds(60), Seconds(10 * 60)}

SessionChaosSamples == {0, 60 * ChaosScale}

\* A session after its first minute: the third kid has been spawned, the
\* cap of the first wave is reached, and blocks lie on the floor.
SessionMidway ==
    /\ \E kinds \in [VaryingBlocks -> {"shelf", "floor"}] :
         volumeBlocks = [b \in BlockIds |->
                            IF b \in VaryingBlocks THEN BlockAt(kinds[b], b)
                            ELSE BlockAt("shelf", b)]
    /\ shelves = ShelvesOf(volumeBlocks)
    /\ kids = [i \in 1..3 |-> NewKid(1)]
    /\ maxKids = 3
    /\ kidSpawnTimer = Seconds(15)
    /\ lastSpawn = NoSpawn
    /\ history = NoHistories(kids)
    /\ body = NoBody
    /\ twin = NoTwin
    /\ schedule = [NoSchedule EXCEPT !.sinceSpawn = Seconds(15)]
    /\ placed = NoPlace
    /\ carriedVolumeBlocks = << >>
    /\ chaosLevel \in SessionChaosSamples
    /\ elapsedTime = Seconds(60)
    /\ isPaused = FALSE
    /\ outcome = "playing"
    /\ chaosDampening = 0
    /\ ticks = 0
    /\ stats = NoStats
    /\ LevelOne
    /\ pc = "idle" /\ kidIndex = 0 /\ deltaTime = 0
    /\ lastCall = NoCall

SessionInit == LevelStart \/ SessionMidway

\* update(deltaTime) with the pause key pressed, lines 227-234:
\* pushState('paused') and return
SessionPause ==
    /\ outcome = "playing" /\ ~isPaused
    /\ PausedEnter
    /\ lastCall' = [op |-> "update", shelf |-> 0, arg |-> 0, ret |-> 2]
    /\ UNCHANGED <<shelfVars, chaosLevel, elapsedTime, outcome, chaosDampening,
                   ticks, stats, agentVars, twin, schedule, placed, frameVars,
                   levelVars>>

\* PausedState.resume()
SessionResume ==
    /\ outcome = "playing" /\ isPaused
    /\ PausedExit
    /\ lastCall' = [op |-> "resume", shelf |-> 0, arg |-> 0, ret |-> 0]
    /\ UNCHANGED <<shelfVars, chaosLevel, elapsedTime, outcome, chaosDampening,
                   ticks, stats, agentVars, twin, schedule, placed, frameVars,
                   levelVars>>

\* update(deltaTime) of an unpaused frame without the pause key
SessionUpdate == \E dt \in SessionDeltaTimes : SpawnUpdate(dt)

SessionNext == SessionUpdate \/ SessionPause \/ SessionResume

SpecSession ==
    /\ SessionInit
    /\ [][SessionNext]_vars
    /\ WF_vars(SessionResume)
    /\ SF_vars(SessionUpdate)

----------------------------------------------------------------------------
(* SpecMove: the update of kid 1 with the geometry.  The kid's position and *)
(* velocity are followed in body, in pixels and pixels per second; what the *)
(* update reads of the shelves (the shelves in range, the touch of the      *)
(* target) is computed from the position, and the kid moves as              *)
(* applyMovement moves it.  The shelves stand where                         *)
(* generateVolumeVaultLayout puts them; the player's position stays an      *)
(* input, and so does the heading, which the code computes with             *)
(* Math.atan2, Math.cos and Math.sin.                                       *)

MaxMoves == 2        \* updates of the kid explored from each sampled state

\* PlayingState constructor, lines 24-25
worldWidth == 1920

worldHeight == 1080

\* Kid constructor, lines 16-17
speed(a) == IF a = 1 THEN 70 ELSE IF a = 2 THEN 80 ELSE 90

fleeSpeed(a) == IF a = 1 THEN 100 ELSE IF a = 2 THEN 110 ELSE 120

Abs(n) == IF n < 0 THEN -n ELSE n

\* generateVolumeVaultLayout, lines 740-750: the position of shelf s of
\* this.shelves, filled row by row, 10 shelves to a row
ShelfPosition(s) ==
    <<200 + ((s - 1) % 10) * 180, 200 + ((s - 1) \div 10) * 180>>

\* getCenterX() and getCenterY() of a kid (48 x 60) at b and of shelf s
\* (64 x 96), and the square of getDistanceTo(shelf)
DistanceSquared(b, s) ==
    LET dx == (ShelfPosition(s)[1] + 32) - (b.x + 24)
        dy == (ShelfPosition(s)[2] + 48) - (b.y + 30)
    IN  dx * dx + dy * dy

\* A mutation of the shelf search: the bounds check alone decides.
SeenFromBoundsOnly(b) ==
    {s \in ShelfIds :
        ~(\/ Abs(ShelfPosition(s)[1] - b.x) > shelfDetectionRange
          \/ Abs(ShelfPosition(s)[2] - b.y) > shelfDetectionRange)}

\* updateWandering, lines 160-168: the shelves that pass the bounds check
\* and stand within shelfDetectionRange of the kid at b
SeenFrom(b) ==
    {s \in ShelfIds :
        /\ ~(\/ Abs(ShelfPosition(s)[1] - b.x) > shelfDetectionRange
             \/ Abs(ShelfPosition(s)[2] - b.y) > shelfDetectionRange)
        /\ DistanceSquared(b, s) < shelfDetectionRange * shelfDetectionRange}

\* isNearShelf(shelf, distance), lines 616-639
isNearShelf(b, s, distance) ==
    LET q == ShelfPosition(s)
    IN  ~(\/ b.x >= q[1] + 64 + distance
          \/ b.x + 48 <= q[1] - distance
          \/ b.y >= q[2] + 96 + distance
          \/ b.y + 60 <= q[2] - distance)

\* applyMovement, lines 561-568: the shelves that pass the bounds check of
\* checkRadius = 150
NearbyShelves(b) ==
    {q \in LayoutPositions : ~(Abs(q[1] - b.x) > 150 \/ Abs(q[2] - b.y) > 150)}

\* applyMovement, lines 555-556 and 570-577: the new position, and whether
\* the move to it along one axis collides with no nearby shelf
newX(b, dt) == b.x + (b.vx * dt) \div TimeScale

newY(b, dt) == b.y + (b.vy * dt) \div TimeScale

canMoveX(b, dt) ==
    \A q \in NearbyShelves(b) : ~checkCollision(newX(b, dt), b.y, q)

canMoveY(b, dt) ==
    \A q \in NearbyShelves(b) : ~checkCollision(b.x, newY(b, dt), q)

\* applyMovement(deltaTime), lines 545-614, of a kid in the given state;
\* unstuck is the velocity of the random heading of lines 609-613
applyMovement(b, dt, state, unstuck) ==
    LET stuck == ~canMoveX(b, dt) /\ ~canMoveY(b, dt) /\ state = "wandering"
    IN  [x |-> IF canMoveX(b, dt) THEN newX(b, dt) ELSE b.x,
         y |-> IF canMoveY(b, dt) THEN newY(b, dt) ELSE b.y,
         vx |-> IF stuck THEN unstuck[1]
                ELSE IF canMoveX(b, dt) THEN b.vx ELSE (-3 * b.vx) \div 10,
         vy |-> IF stuck THEN unstuck[2]
                ELSE IF canMoveY(b, dt) THEN b.vy ELSE (-3 * b.vy) \div 10]

\* update(deltaTime), lines 128-135: keep within world bounds
KeepInWorld(b) ==
    [b EXCEPT !.x = Max(0, Min(worldWidth - 48, b.x)),
              !.y = Max(0, Min(worldHeight - 60, b.y))]

\* The velocities of a kid of speed s along the axes and the diagonals, in
\* multiples of 10 pixels per second, so that every displacement is a whole
\* number of pixels.
Velocities(s) ==
    LET d == ((s * 71 + 500) \div 1000) * 10
    IN  {<<s, 0>>, <<-s, 0>>, <<0, s>>, <<0, -s>>,
         <<d, d>>, <<d, -d>>, <<-d, d>>, <<-d, -d>>}

\* The velocity v heads for shelf s from b, on both axes.
Toward(b, s, v) ==
    /\ v[1] * ((ShelfPosition(s)[1] + 32) - (b.x + 24)) >= 0
    /\ v[2] * ((ShelfPosition(s)[2] + 48) - (b.y + 30)) >= 0

\* updateWandering, lines 178-190: the nearest of the shelves with stock
NearestStocked(S, b) ==
    LET c == {s \in ShelfIds : HasStock(S, s)}
    IN  IF c = {} THEN Null
        ELSE CHOOSE s \in c :
               \A o \in c : \/ DistanceSquared(b, s) < DistanceSquared(b, o)
                            \/ /\ DistanceSquared(b, s) = DistanceSquared(b, o)
                               /\ s <= o

\* The velocities that the update of kid k at b can set before it moves:
\* toward the target shelf when it is Stealing (lines 329-331), toward the
\* nearest stocked shelf when it is Wandering with empty hands and no
\* cooldown (lines 192-196), at the flee speed when it is Fleeing, any
\* heading otherwise (lines 209-227).
Headings(k, S, b) ==
    CASE k.state = "stealing" ->
           {v \in Velocities(speed(k.aggressionLevel)) : Toward(b, k.target, v)}
      [] k.state = "fleeing" -> Velocities(fleeSpeed(k.aggressionLevel))
      [] OTHER ->
           IF k.carriedVolumeBlock = Null /\ k.volumeBlockStealCooldown <= 0
                /\ NearestStocked(S, b) # Null
             THEN {v \in Velocities(speed(k.aggressionLevel)) :
                      Toward(b, NearestStocked(S, b), v)}
             ELSE Velocities(speed(k.aggressionLevel))

\* The inputs of the update of kid k at b: those of KidInputs, with the
\* shelves in range and the touch of the target as the position gives them.
MoveInputs(k, b) ==
    {[in EXCEPT !.seen = SeenFrom(b),
                !.touching = k.target # Null /\ isNearShelf(b, k.target, 5)] :
        in \in KidInputs(k)}

\* The update of kid k with the inputs in reaches applyMovement: a Wandering
\* kid that neither flees nor turns to Stealing (line 244), a Fleeing kid
\* that is not yet far (line 291), a Stealing kid that does not flee and
\* does not touch its target (line 333).
Walks(k, S, in) ==
    CASE k.state = "wandering" ->
           /\ in.dist >= playerDetectionRange
           /\ ~(/\ k.carriedVolumeBlock = Null
                /\ k.volumeBlockStealCooldown <= 0
                /\ FirstSeenStocked(S, in.seen) # Null)
      [] k.state = "fleeing" -> ~(2 * in.dist > 3 * playerDetectionRange)
      [] k.state = "stealing" ->
           /\ k.target # Null /\ k.carriedVolumeBlock = Null
           /\ in.dist >= playerDetectionRange
           /\ ~in.touching

\* Where kid 1 can stand, at rest: between shelves 1 and 2, next to shelf 2;
\* off the upper left corner of shelf 1, 2 pixels from it on both axes;
\* left of shelf 1, out of the detection range and of checkRadius; left of
\* shelf 1, 2 pixels from it.
BodySamples ==
    {[x |-> p[1], y |-> p[2], vx |-> 0, vy |-> 0] :
        p \in {<<330, 220>>, <<150, 138>>, <<40, 200>>, <<150, 220>>}}

\* A kid whose steal cooldown is running: it knocked a block to the floor
\* a while ago.
CooldownSamples == {3, volumeBlockStealCooldownTime(1)}

MoveInit ==
    /\ \E k1 \in {"shelf", "kid"}, k2 \in {"shelf", "floor"} :
         volumeBlocks = [b \in BlockIds |->
                            IF b = 1 THEN BlockAt(k1, b)
                            ELSE IF b = 2 THEN BlockAt(k2, b)
                            ELSE BlockAt("shelf", b)]
    /\ shelves = ShelvesOf(volumeBlocks)
    /\ kids \in [1..initialKids ->
                    KidSamples(volumeBlocks, 1) \cup {NewKid(1)}
                      \cup {[NewKid(1) EXCEPT !.volumeBlockStealCooldown = c] :
                               c \in CooldownSamples}]
    /\ \/ kids[1] \in KidSamples(volumeBlocks, 1)
       \/ /\ KidsOf(volumeBlocks)[1].carriedVolumeBlock = Null
          /\ \E c \in CooldownSamples :
                kids[1] = [NewKid(1) EXCEPT !.volumeBlockStealCooldown = c]
    /\ kids[2] = NewKid(1)
    /\ carriedVolumeBlocks = << >>
    /\ maxKids = 3
    /\ kidSpawnTimer = Seconds(15)
    /\ lastSpawn = NoSpawn
    /\ history \in [1..initialKids -> UNION {HistorySamples(kids[i]) :
                                                  i \in 1..initialKids}]
    /\ \A i \in 1..initialKids : history[i] \in HistorySamples(kids[i])
    /\ body \in BodySamples
    /\ twin = NoTwin
    /\ schedule = NoSchedule
    /\ placed = NoPlace
    /\ SessionStart
    /\ pc = "idle" /\ kidIndex = 0 /\ deltaTime = 0
    /\ lastCall = NoCall

\* The draws of the random heading of lines 609-613, at half the speed, for
\* a kid that is about to move from b: one only when the heading is not
\* drawn.
UnstuckDraws(k, b, dt) ==
    IF ~canMoveX(b, dt) /\ ~canMoveY(b, dt) /\ k.state = "wandering"
      THEN {<<u[1] \div 2, u[2] \div 2>> :
               u \in Velocities(speed(k.aggressionLevel))}
      ELSE {<<0, 0>>}

\* kid.update(deltaTime) of kid 1, lines 69-135, at the distance in.dist
\* from the player.
MoveUpdate(dt, in) ==
    /\ ticks < MaxMoves
    /\ ticks' = ticks + 1
    /\ deltaTime' = dt
    /\ LET k == kids[1]
           cooled == IF k.volumeBlockStealCooldown > 0
                       THEN [k EXCEPT !.volumeBlockStealCooldown = @ - dt]
                       ELSE k
       IN  IF Walks(cooled, shelves, in)
             THEN \E v \in Headings(cooled, shelves, body) :
                    LET b == [body EXCEPT !.vx = v[1], !.vy = v[2]]
                    IN  \E unstuck \in UnstuckDraws(k, b, dt) :
                          body' = KeepInWorld(
                                     applyMovement(b, dt, k.state, unstuck))
             ELSE body' = KeepInWorld(body)
    /\ SetWorld(update(World, 1, dt, in))
    /\ history' = [history EXCEPT ![1] =
                      Observed(@, kids[1], kids'[1], dt, in)]
    /\ lastCall' = [op |-> "kid", shelf |-> 0, arg |-> 1, ret |-> in.dist]
    /\ UNCHANGED <<maxKids, kidSpawnTimer, lastSpawn, pc, kidIndex,
                   elapsedTime, isPaused, outcome, chaosDampening,
                   xpMultiplier, twin, schedule, placed, placed>>

MoveNext ==
    \E dt \in GameDeltaTimes, in \in MoveInputs(kids[1], body) :
        MoveUpdate(dt, in)

SpecMove == MoveInit /\ [][MoveNext]_vars

----------------------------------------------------------------------------
(* SpecDrop: where a kid puts a block on the floor.  The two placements are *)
(* functions of a centre, two draws of Math.random() and the size of the    *)
(* block; they are applied to every shelf of the vault, to kids all over    *)
(* the world and to sampled draws and sizes.                                *)

\* volumeBlock.width and volumeBlock.height, as <<width, height>>: the sizes
\* a block is tried with (VolumeBlock.js is not among the source files).
BlockSizes == {<<16, 16>>, <<24, 32>>, <<32, 48>>}

\* Math.cos(randomAngle) * randomDistance and Math.sin(randomAngle) *
\* randomDistance with randomDistance = Math.random() * dropRadius, which is
\* under dropRadius: the offsets <<dx, dy>> tried, along the axes and the
\* diagonals.
Offsets(dropRadius) ==
    LET steps == {-(dropRadius - 1), -(dropRadius \div 2), 0,
                  dropRadius \div 2, dropRadius - 1}
    IN  {o \in steps \X steps :
            o[1] * o[1] + o[2] * o[2] < dropRadius * dropRadius}

\* updateStealing, lines 347-361: the block knocked off the shelf at
\* position q is put around the centre of the shelf (64 x 96), dropRadius
\* 150
knockToFloor(q, o, size) ==
    [op |-> "knock",
     x |-> q[1] + 32 + o[1] - size[1] \div 2,
     y |-> q[2] + 48 + o[2] - size[2] \div 2,
     width |-> size[1], height |-> size[2]]

\* dropVolumeBlock, lines 499-529: dropX and dropY of the block that the kid
\* (48 x 60) at k lets go, around its target shelf at q when it has one
\* (q # Null) and around itself otherwise, kept 20 pixels from the edges of
\* the world of the current state
dropPlace(k, q, o, size) ==
    LET dropX == IF q # Null THEN q[1] + 32 + o[1] - size[1] \div 2
                 ELSE k[1] + 24 + o[1] - size[1] \div 2
        dropY == IF q # Null THEN q[2] + 48 + o[2] - size[2] \div 2
                 ELSE k[2] + 30 + o[2] - size[2] \div 2
        margin == 20
    IN  [op |-> "drop",
         x |-> Max(margin, Min(worldWidth - size[1] - margin, dropX)),
         y |-> Max(margin, Min(worldHeight - size[2] - margin, dropY)),
         width |-> size[1], height |-> size[2]]

\* The positions <<x, y>> of a kid that drops a block: the corners of the
\* world, the place of ensureSafeSpawnPosition and two spawn points.
DropPositions ==
    {<<0, 0>>, <<worldWidth - 48, 0>>, <<0, worldHeight - 60>>,
     <<worldWidth - 48, worldHeight - 60>>, <<30, 30>>,
     spawnPoints[1], spawnPoints[8]}

DropInit == LevelStart

\* A Stealing kid knocks a block off the shelf at q.
KnockStep ==
    /\ \E q \in LayoutPositions, o \in Offsets(150), size \in BlockSizes :
           placed' = knockToFloor(q, o, size)
    /\ UNCHANGED <<volumeBlocks, shelves, lastCall, chaosLevel, elapsedTime,
                   isPaused, outcome, chaosDampening, ticks, stats, kids,
                   maxKids, kidSpawnTimer, carriedVolumeBlocks, pc, kidIndex,
                   deltaTime, xp, xpToNext, playerLevel, xpMultiplier,
                   upgradeSelections, lastSpawn, history, body, twin,
                   schedule>>

\* A kid at k, which carries a block and so has no target, drops it.
DropStep ==
    /\ \E k \in DropPositions, o \in Offsets(60), size \in BlockSizes :
           placed' = dropPlace(k, Null, o, size)
    /\ UNCHANGED <<volumeBlocks, shelves, lastCall, chaosLevel, elapsedTime,
                   isPaused, outcome, chaosDampening, ticks, stats, kids,
                   maxKids, kidSpawnTimer, carriedVolumeBlocks, pc, kidIndex,
                   deltaTime, xp, xpToNext, playerLevel, xpMultiplier,
                   upgradeSelections, lastSpawn, history, body, twin,
                   schedule>>

DropNext == KnockStep \/ DropStep

SpecDrop == DropInit /\ [][DropNext]_vars

----------------------------------------------------------------------------
(* Claims about the Shelf, checked under SpecShelf *)

\* The blocks other than b are as they were.
OtherBlocksUnchanged(b) ==
    \A o \in BlockIds \ {b} : volumeBlocks'[o] = volumeBlocks[o]

\* Block b lies on the floor, owned by nobody.
OnFloor(B, b) ==
    ~B[b].isHeld /\ ~B[b].isShelved /\ B[b].shelf = Null /\ B[b].holder = Null

\* C4: in every reachable state, every occupied slot of every shelf holds a
\* block whose color is the shelf's color.
C4_SlotColorMatchesShelf ==
    \A s \in ShelfIds : \A i \in 1..Capacity :
        shelves[s].slots[i] # Null
            => volumeBlocks[shelves[s].slots[i]].color = shelves[s].color

\* A shelf with a free slot has just refused a block of another color, while
\* blocks stand on some shelf.
C4_Witness ==
    /\ lastCall.op = "add" /\ lastCall.ret = 0
    /\ hasEmptySlots(shelves, lastCall.shelf)
    /\ volumeBlocks[lastCall.arg].color # shelves[lastCall.shelf].color
    /\ \E s \in ShelfIds : VolumeBlockCount(shelves, s) >= 1

\* C6: addVolumeBlock returns true exactly when the shelf has an empty slot
\* and the colors match; on true the block takes the lowest-index empty
\* slot, the other slots and shelves are unchanged and the block is Shelved
\* on this shelf; on false shelves and blocks are unchanged.  So the adds
\* that fill a shelf all succeed, a full shelf has no empty slot, and an add
\* to a full shelf returns false and leaves the count.
C6_AddVolumeBlockContract ==
    [][lastCall'.op = "add" =>
        LET s == lastCall'.shelf
            b == lastCall'.arg
            free == {i \in 1..Capacity : shelves[s].slots[i] = Null}
        IN  /\ (lastCall'.ret = 1)
                 <=> (free # {} /\ volumeBlocks[b].color = shelves[s].color)
            /\ lastCall'.ret = 1 =>
                 /\ \E i \in free :
                       /\ \A j \in free : i <= j
                       /\ shelves' = [shelves EXCEPT ![s].slots[i] = b]
                 /\ volumeBlocks'[b].isShelved /\ ~volumeBlocks'[b].isHeld
                 /\ volumeBlocks'[b].shelf = s
                 /\ volumeBlocks'[b].color = volumeBlocks[b].color
                 /\ OtherBlocksUnchanged(b)
                 /\ VolumeBlockCount(shelves', s) = VolumeBlockCount(shelves, s) + 1
            /\ lastCall'.ret = 0 =>
                 /\ shelves' = shelves
                 /\ volumeBlocks' = volumeBlocks
            /\ lastCall'.ret \in {0, 1}
            /\ hasEmptySlots(shelves', s)
                 <=> VolumeBlockCount(shelves', s) < Capacity
            /\ (free = {}) => lastCall'.ret = 0
    ]_vars

\* A shelf filled to capacity has just refused one more block of its own
\* color (scenario A's further add).
C6_Witness ==
    /\ lastCall.op = "add" /\ lastCall.ret = 0
    /\ volumeBlocks[lastCall.arg].color = shelves[lastCall.shelf].color
    /\ VolumeBlockCount(shelves, lastCall.shelf) = Capacity
    /\ ~hasEmptySlots(shelves, lastCall.shelf)

\* C7: removeVolumeBlock(index) with index in [0, capacity) and the slot
\* occupied empties that slot only, unshelves the block (no shelf reference,
\* on the floor) and returns it; for any other index, or an empty slot, it
\* returns null and changes nothing.
C7_RemoveVolumeBlockContract ==
    [][lastCall'.op = "remove" =>
        LET s == lastCall'.shelf
            index == lastCall'.arg
            occupied == /\ index >= 0 /\ index < Capacity
                        /\ shelves[s].slots[index + 1] # Null
        IN  IF occupied
              THEN LET b == shelves[s].slots[index + 1]
                   IN  /\ lastCall'.ret = b
                       /\ shelves' = [shelves EXCEPT ![s].slots[index + 1] = Null]
                       /\ OnFloor(volumeBlocks', b)
                       /\ volumeBlocks'[b].color = volumeBlocks[b].color
                       /\ OtherBlocksUnchanged(b)
              ELSE /\ lastCall'.ret = Null
                   /\ shelves' = shelves
                   /\ volumeBlocks' = volumeBlocks
    ]_vars

\* A block has just been removed by its index while another block stays on
\* that shelf.
C7_Witness ==
    /\ lastCall.op = "remove" /\ lastCall.ret # Null
    /\ OnFloor(volumeBlocks, lastCall.ret)
    /\ shelves[lastCall.shelf].slots[lastCall.arg + 1] = Null
    /\ VolumeBlockCount(shelves, lastCall.shelf) >= 1

\* The blocks removeRandomVolumeBlock can return from shelf s over all draws.
RandomRemovals(s) ==
    {removeRandomVolumeBlock(shelves, volumeBlocks, s, rnd).ret : rnd \in RandDraws}

\* C8: removeRandomVolumeBlock returns null and changes nothing exactly when
\* no slot is occupied; otherwise, whatever the draw, it removes and returns
\* the block of one occupied slot (the count drops by one), and every
\* occupied slot's block is returned for some draw.
C8_RemoveRandomContract ==
    [][lastCall'.op = "removeRandom" =>
        LET s == lastCall'.shelf
            occupied == {i \in 1..Capacity : shelves[s].slots[i] # Null}
        IN  /\ (lastCall'.ret = Null) <=> (occupied = {})
            /\ lastCall'.ret = Null =>
                 /\ shelves' = shelves
                 /\ volumeBlocks' = volumeBlocks
            /\ lastCall'.ret # Null =>
                 /\ \E i \in occupied :
                       /\ shelves[s].slots[i] = lastCall'.ret
                       /\ shelves' = [shelves EXCEPT ![s].slots[i] = Null]
                 /\ OnFloor(volumeBlocks', lastCall'.ret)
                 /\ OtherBlocksUnchanged(lastCall'.ret)
                 /\ VolumeBlockCount(shelves', s) = VolumeBlockCount(shelves, s) - 1
            /\ RandomRemovals(s) = {shelves[s].slots[i] : i \in occupied}
                                     \cup (IF occupied = {} THEN {Null} ELSE {})
    ]_vars

\* A random removal has just returned a block from a shelf that held at
\* least two, the removed one not being the first.
C8_Witness ==
    /\ lastCall.op = "removeRandom" /\ lastCall.ret # Null
    /\ VolumeBlockCount(shelves, lastCall.shelf) >= 1
    /\ shelves[lastCall.shelf].slots[1] # Null

----------------------------------------------------------------------------
(* Claims about the chaos economy, checked under SpecChaos *)

\* The step just taken ran updateChaos: an update() that was neither paused
\* nor ended by the win test.
EconomyStep ==
    /\ lastCall'.op = "update"
    /\ lastCall'.ret = 1
    /\ outcome' # "won"

\* chaosSource, counted from the blocks' location: the blocks on the floor
\* plus the blocks in state Held whose owning reference is an agent.
ChaosSource ==
    Cardinality({b \in BlockIds :
                    ~volumeBlocks[b].isHeld /\ ~volumeBlocks[b].isShelved})
  + Cardinality({b \in BlockIds :
                    volumeBlocks[b].isHeld /\ volumeBlocks[b].holder >= 1})

\* C1: at the end of every tick, and after every pickup, snatch and shelve
\* reward, 0 <= chaosLevel <= maxChaos.
C1_ChaosWithinBounds ==
    chaosLevel >= 0 /\ chaosLevel <= maxChaos * ChaosScale

\* A tick has pushed a chaos level next to maxChaos against the clamp, which
\* ended the game.
C1_Witness ==
    /\ lastCall.op = "update" /\ lastCall.ret = 1
    /\ outcome = "lost" /\ chaosLevel = maxChaos * ChaosScale

C10_PassiveDecay ==
    [][ EconomyStep =>
          /\ (ChaosSource = 0 /\ chaosLevel > 0) =>
                chaosLevel' =
                    Max(0, chaosLevel
                             - ((ChaosScale \div 10) * lastCall'.arg) \div TimeScale)
          /\ ChaosSource > 0 => chaosLevel' >= chaosLevel
      ]_vars

\* With no block out, a tick of 2 seconds has taken 0.2 off a chaos level of
\* 0.6.
C10_Witness ==
    /\ lastCall.op = "update" /\ lastCall.ret = 1 /\ outcome = "playing"
    /\ ChaosSource = 0 /\ lastCall.arg = 2 * TimeScale
    /\ chaosLevel = (6 * ChaosScale) \div 10 - (2 * ChaosScale) \div 10

----------------------------------------------------------------------------
(* Claims about the spawn scheduler, checked under SpecSpawn *)

\* C2: at every point of a session, from the 2 initial agents under a cap
\* of 3 onward, through any sequence of ticks and cap increases, the number
\* of agents never exceeds the current cap maxKids.
C2_PopulationWithinCap ==
    Len(kids) <= maxKids

\* The cap has grown past its first value and the spawns have filled it.
C2_Witness ==
    /\ lastCall.op = "spawning" /\ lastCall.ret = 1
    /\ maxKids > 3
    /\ Len(kids) = maxKids

----------------------------------------------------------------------------
(* Claims about the blocks' places, checked under Spec *)

\* C3: for every block in every reachable state, isHeld and isShelved are
\* never both true, across any sequence of shelf add/remove, agent theft
\* (carry away or knock to floor), agent drop, player pickup, snatch and
\* shelving.
C3_NeverHeldAndShelved ==
    \A b \in BlockIds : ~(volumeBlocks[b].isHeld /\ volumeBlocks[b].isShelved)

\* The player has just shelved a block that had left its shelf, while a kid
\* carries another block away and the stolen blocks' slots are not all
\* filled again.
C3_Witness ==
    /\ lastCall.op = "shelve" /\ lastCall.ret >= 1
    /\ stats.volumeBlocksCollected >= 1
    /\ \E i \in 1..Len(kids) :
          /\ kids[i].carriedVolumeBlock # Null
          /\ volumeBlocks[kids[i].carriedVolumeBlock].isHeld
    /\ \E b \in BlockIds : volumeBlocks[b].isShelved

\* The places (shelf, slot) where block b stands.
SlotsOf(b) ==
    {p \in ShelfIds \X (1..Capacity) : shelves[p[1]].slots[p[2]] = b}

\* C5: in every reachable state every non-empty shelf slot holds a block
\* that is Shelved with its shelf reference equal to that shelf, and every
\* block marked Shelved sits in exactly one slot of exactly one shelf; hence
\* the shelf's self-healing slot clear finds nothing to clear and the audit
\* finds no block marked as shelved that is in no shelf.
C5_SlotsAgreeWithBlocks ==
    /\ \A s \in ShelfIds : \A i \in 1..Capacity :
          shelves[s].slots[i] # Null =>
              /\ volumeBlocks[shelves[s].slots[i]].isShelved
              /\ volumeBlocks[shelves[s].slots[i]].shelf = s
    /\ \A b \in BlockIds :
          volumeBlocks[b].isShelved => Cardinality(SlotsOf(b)) = 1
    /\ RenderFrom(shelves, volumeBlocks, 1) = shelves
    /\ validateVolumeBlockStates(shelves, volumeBlocks).notInShelf = {}

\* The shelves have been rendered after a tick in which a stolen block came
\* back to a shelf while another slot stays empty.
C5_Witness ==
    /\ lastCall.op = "render"
    /\ stats.volumeBlocksShelved >= 1
    /\ \E s \in ShelfIds : hasEmptySlots(shelves, s)
    /\ \E b \in BlockIds : ~volumeBlocks[b].isShelved

----------------------------------------------------------------------------
(* Claims about the rewards of the player's interactions, checked under     *)
(* SpecChaos                                                                *)

\* The blocks the step just taken has added to the game's count of
\* collected blocks, and to its count of shelved blocks.
CollectedNow == stats'.volumeBlocksCollected - stats.volumeBlocksCollected

ShelvedNow == stats'.volumeBlocksShelved - stats.volumeBlocksShelved

\* C11: each pickup of a floor block lowers chaos by 0.5, each snatch from
\* an agent by 0.75 and each successful shelving by 1.0 (so shelving >
\* snatching > picking up), each floored at 0, whatever the player's stats
\* (dampening, carried blocks) are; an interaction step that collects or
\* shelves nothing leaves chaos alone.
C11_FlatRewards ==
    [][ /\ lastCall'.op = "pickup" =>
              chaosLevel' = Max(0, chaosLevel - CollectedNow * ((5 * ChaosScale) \div 10))
        /\ lastCall'.op = "snatch" =>
              chaosLevel' = Max(0, chaosLevel - CollectedNow * ((75 * ChaosScale) \div 100))
        /\ lastCall'.op = "shelve" =>
              chaosLevel' = Max(0, chaosLevel - ShelvedNow * ChaosScale)
        /\ lastCall'.op \in {"pickup", "snatch"} => ShelvedNow = 0
        /\ lastCall'.op = "shelve" => CollectedNow = 0
      ]_vars

\* Under a dampening of 30, a block picked up from the floor at chaos 50 has
\* been shelved: chaos is 50 - 0.5 - 1.0.
C11_Witness ==
    /\ lastCall.op = "shelve"
    /\ stats.volumeBlocksCollected = 1 /\ stats.volumeBlocksShelved = 1
    /\ chaosDampening = 30
    /\ chaosLevel = 50 * ChaosScale - (5 * ChaosScale) \div 10 - ChaosScale

----------------------------------------------------------------------------
(* Claims about the waves, checked under SpecSpawn *)

\* The step just taken ran updateKidSpawning.
SchedulerStep == lastCall'.op = "spawning"

\* C12: after the scheduler step of a tick at elapsed minutes m the cap is 3
\* for m < 1, 5 for 1 <= m < 3, 7 for 3 <= m < 5, 10 for 5 <= m < 10 and
\* 10 + 2 * floor(m - 10) for m >= 10; and no step of a session lowers the
\* cap.
C12_CapStepFunction ==
    [][ /\ SchedulerStep =>
              LET minute == 60 * TimeScale
                  e == elapsedTime'
              IN  maxKids' =
                      IF e < minute THEN 3
                      ELSE IF e < 3 * minute THEN 5
                      ELSE IF e < 5 * minute THEN 7
                      ELSE IF e < 10 * minute THEN 10
                      ELSE 10 + 2 * ((e - 10 * minute) \div minute)
        /\ maxKids' >= maxKids
      ]_vars

\* The scheduler has run at 12 minutes sharp, in the second minute past the
\* tenth: the cap is 14.
C12_Witness ==
    /\ lastCall.op = "spawning"
    /\ elapsedTime = 12 * 60 * TimeScale
    /\ maxKids = 14

\* C13: every agent the spawn scheduler creates has aggression tier 1 when
\* the elapsed time at the spawn is under 5 minutes, tier 2 from 5 to under
\* 10 minutes and tier 3 from 10 minutes on, and stands at one of the
\* configured spawn points; the agents created at session start have tier 1.
C13_SpawnTierAndPlace ==
    [][ /\ (SchedulerStep /\ Len(kids') # Len(kids)) =>
              /\ Len(kids') = Len(kids) + 1
              /\ kids'[Len(kids')].aggressionLevel =
                     IF elapsedTime' < 5 * 60 * TimeScale THEN 1
                     ELSE IF elapsedTime' < 10 * 60 * TimeScale THEN 2
                     ELSE 3
              /\ \E p \in 1..Len(spawnPoints) : lastSpawn' = spawnPoints[p]
        /\ \A i \in 1..initialKids : kids'[i].aggressionLevel = 1
      ]_vars

----------------------------------------------------------------------------
(* Claims about XP and levels, checked under SpecXP *)

\* floor(100 * 1.45^(level - 1)), with 1.45 = 29/20
LevelRequirement(level) == (100 * 29^(level - 1)) \div 20^(level - 1)

\* The XP gained since level 1: the XP at hand plus the requirements of the
\* levels passed.
RECURSIVE XpGained(_, _)
XpGained(level, x) ==
    IF level <= 1 THEN x
    ELSE XpGained(level - 1, x + LevelRequirement(level - 1))

\* floor(base * m * b): m the XP multiplier, b = 1.5 when the elapsed time
\* is under 120 s and 1 otherwise.
EffectiveAward(base) ==
    (base * xpMultiplier * (IF elapsedTime < 120 * TimeScale THEN 15 ELSE 10))
        \div 1000

\* The XP that the step just taken should award: base 5 for each pickup, 7
\* for each snatch, 10 for each shelving.
AwardNow ==
    CASE lastCall'.op = "pickup" -> CollectedNow * EffectiveAward(5)
      [] lastCall'.op = "snatch" -> CollectedNow * EffectiveAward(7)
      [] lastCall'.op = "shelve" -> ShelvedNow * EffectiveAward(10)
      [] OTHER -> 0

C15_LevelUpLoop ==
    [][ lastCall'.op \in {"pickup", "snatch", "shelve"} =>
          LET k == playerLevel' - playerLevel
              consumed == XpGained(playerLevel', 0) - XpGained(playerLevel, 0)
          IN  /\ k >= 0
              /\ xp' = xp + AwardNow - consumed
              /\ xp' >= 0 /\ xp' < xpToNext'
              /\ xpToNext' = LevelRequirement(playerLevel')
              /\ upgradeSelections' = upgradeSelections + k
      ]_vars

\* With a multiplier of 20 under the early boost, a player of level 1 with
\* 95 XP has shelved a block: the award of 300 has crossed the requirements
\* 100 and 145, leaving 150 XP at level 3 after two upgrade selections.
C15_Witness ==
    /\ lastCall.op = "shelve" /\ stats.volumeBlocksShelved = 1
    /\ stats.volumeBlocksCollected = 0
    /\ xpMultiplier = 2000 /\ elapsedTime = 0
    /\ playerLevel = 3 /\ xp = 150 /\ xpToNext = 210
    /\ upgradeSelections = 2

----------------------------------------------------------------------------
(* Claims about one update() call, checked under SpecTick and Spec *)

\* C16: a kid that is Wandering or Stealing within playerDetectionRange of
\* the player is Fleeing after its update, and kidsRepelled is incremented
\* exactly once per flee episode: by one when the kid turns to Fleeing, and
\* never by the update of a kid that is already Fleeing or that does not
\* turn to Fleeing.
C16_FleeOnDetection ==
    [][ lastCall'.op = "kid" =>
          LET i == lastCall'.arg
              detected == lastCall'.ret < playerDetectionRange
                            /\ kids[i].state \in {"wandering", "stealing"}
          IN  /\ detected => /\ kids'[i].state = "fleeing"
                              /\ stats'.kidsRepelled = stats.kidsRepelled + 1
              /\ ~detected => stats'.kidsRepelled = stats.kidsRepelled
      ]_vars

\* The part of C16 that the code keeps: the update of a kid that is already
\* Fleeing never increments kidsRepelled, and no update increments it by
\* more than one.
C16_NoCountWhileFleeing ==
    [][ lastCall'.op = "kid" =>
          /\ kids[lastCall'.arg].state = "fleeing"
                => stats'.kidsRepelled = stats.kidsRepelled
          /\ stats'.kidsRepelled \in {stats.kidsRepelled,
                                       stats.kidsRepelled + 1}
      ]_vars

\* C17: between two update() calls each kid carries at most one block, no
\* block is carried by two kids, and every block carried by a kid has
\* isHeld true, isShelved false and that kid as its holder.
C17_KidCarriesItsBlock ==
    pc = "idle" =>
        /\ \A i \in 1..Len(kids) :
               LET b == kids[i].carriedVolumeBlock
               IN  b # Null =>
                     /\ b \in BlockIds
                     /\ volumeBlocks[b].isHeld
                     /\ ~volumeBlocks[b].isShelved
                     /\ volumeBlocks[b].holder = i
        /\ \A i, j \in 1..Len(kids) :
               (i # j /\ kids[i].carriedVolumeBlock # Null)
                   => kids[i].carriedVolumeBlock # kids[j].carriedVolumeBlock

\* After the third update() call of a session the first kid carries the
\* block it has taken from the second shelf and the second kid is Wandering
\* with empty hands, a block of the first shelf lying on the floor.
C17_Witness ==
    /\ pc = "idle" /\ ticks = 3
    /\ kids[1].carriedVolumeBlock # Null
    /\ HomeShelf(kids[1].carriedVolumeBlock) = 2
    /\ kids[2].carriedVolumeBlock = Null /\ kids[2].state = "wandering"
    /\ \E b \in BlockIds :
          /\ HomeShelf(b) = 1
          /\ ~volumeBlocks[b].isHeld /\ ~volumeBlocks[b].isShelved

\* What the steps of update() after the lose test can change: the kids,
\* the spawn scheduler, the blocks, the shelves, what the player carries,
\* the session's counters and the XP.
TickRest ==
    <<volumeBlocks, shelves, kids, maxKids, kidSpawnTimer, lastSpawn,
      carriedVolumeBlocks, stats, xp, xpToNext, playerLevel, upgradeSelections>>

\* An update() call that got past the pause tests.
TimedUpdate == lastCall'.op = "update" /\ lastCall'.ret = 1

\* C18: an update() call whose advance of the timer makes elapsedTime >=
\* targetTime signals 'won' and stops: chaos is not updated, no kid is
\* updated, nothing is spawned, picked up, snatched or shelved in that call,
\* whatever the chaos economy would have done; and 'won' is never signalled
\* with elapsedTime < targetTime.
C18_WinStopsTick ==
    [][ /\ (TimedUpdate /\ elapsedTime' >= targetTime) =>
              /\ outcome' = "won"
              /\ elapsedTime' = elapsedTime + lastCall'.arg
              /\ chaosLevel' = chaosLevel
              /\ TickRest' = TickRest
              /\ pc' = "idle"
        /\ outcome' = "won" => elapsedTime' >= targetTime /\ pc' = "idle"
        /\ (outcome' = "won" /\ outcome # "won") => TimedUpdate
      ]_vars

\* The game has just been won at elapsedTime = targetTime exactly, in an
\* update() call whose chaos economy would have filled the chaos to
\* maxChaos.
C18_Witness ==
    /\ outcome = "won" /\ lastCall.op = "update"
    /\ elapsedTime = targetTime
    /\ chaosLevel < MaxChaosUnits
    /\ updateChaos(chaosLevel, volumeBlocks, elapsedTime, chaosDampening,
                   lastCall.arg) >= MaxChaosUnits

\* C19: an update() call whose chaos economy leaves chaosLevel >= maxChaos
\* signals 'lost' and stops: no kid is updated, nothing is spawned, picked
\* up, snatched or shelved in that call; and 'lost' is never signalled by a
\* call whose chaos economy leaves chaosLevel below maxChaos.
C19_LossStopsTick ==
    [][ /\ (TimedUpdate /\ outcome' # "won" /\ chaosLevel' >= MaxChaosUnits) =>
              /\ outcome' = "lost"
              /\ TickRest' = TickRest
              /\ pc' = "idle"
        /\ outcome' = "lost" => chaosLevel' >= MaxChaosUnits /\ pc' = "idle"
        /\ (outcome' = "lost" /\ outcome # "lost") =>
              /\ TimedUpdate
              /\ chaosLevel' = updateChaos(chaosLevel, volumeBlocks, elapsedTime',
                                           chaosDampening, lastCall'.arg)
      ]_vars

\* The game has just been lost: the chaos economy of an update() call has
\* raised the chaos from under maxChaos to maxChaos, while a kid was
\* carrying a block.
C19_Witness ==
    /\ outcome = "lost" /\ lastCall.op = "update"
    /\ chaosLevel = MaxChaosUnits
    /\ elapsedTime < targetTime
    /\ \E i \in 1..Len(kids) : kids[i].carriedVolumeBlock # Null

\* The simulation state: the elapsed time, the chaos, the blocks, the
\* shelves, the kids, the spawn scheduler, what the player carries, the
\* counters, the XP and the outcome.
Simulation == <<elapsedTime, chaosLevel, outcome, TickRest>>

\* C20: an update() call with the pause key pressed requests the paused
\* state and changes nothing of the simulation, and no update() call made
\* while the game is paused changes anything of it; in both cases the call
\* ends there.
C20_PauseFreezesSimulation ==
    [][ lastCall'.op = "update" =>
          /\ lastCall'.ret = 2 =>
                isPaused' /\ Simulation' = Simulation /\ pc' = "idle"
          /\ isPaused =>
                isPaused' /\ Simulation' = Simulation /\ pc' = "idle"
      ]_vars

\* update() has returned at once on a paused game that was half a second
\* from the win, with a block out and chaos next to maxChaos.
C20_Witness ==
    /\ isPaused /\ lastCall.op = "update" /\ lastCall.ret = 0
    /\ elapsedTime = targetTime - TimeScale \div 2
    /\ chaosLevel = MaxChaosUnits - 100
    /\ \E b \in BlockIds : ~volumeBlocks[b].isHeld /\ ~volumeBlocks[b].isShelved

----------------------------------------------------------------------------
(* Claims about the kids' state machine, checked under Spec and SpecTick *)

\* The update of kid i in which its grab delay runs out at its target shelf:
\* the only place where a Stealing kid's target is cleared.
GrabNow(i) ==
    /\ lastCall'.op = "kid" /\ lastCall'.arg = i
    /\ kids[i].state = "stealing"
    /\ kids[i].target # Null /\ kids'[i].target = Null

\* The blocks that a step has changed.
ChangedBlocks == {b \in BlockIds : volumeBlocks'[b] # volumeBlocks[b]}

\* C24: when the grab delay of a Stealing kid runs out at its target shelf
\* and the shelf has stock, exactly one block leaves the shelf and either
\* (a) it lies on the floor, the kid carries nothing and does not turn to
\* Fleeing, or (b) the kid carries it (held, the kid its holder) and turns
\* to Fleeing; when the shelf has no stock the kid returns to Wandering with
\* a steal cooldown of 1 s; in every case the target is cleared.
C24_GrabOutcomes ==
    [][ \A i \in 1..Len(kids) : GrabNow(i) =>
          LET s == kids[i].target
          IN  IF HasStock(shelves, s)
                THEN /\ VolumeBlockCount(shelves', s) = VolumeBlockCount(shelves, s) - 1
                     /\ \E b \in BlockIds :
                          /\ ChangedBlocks = {b}
                          /\ volumeBlocks[b].isShelved /\ ~volumeBlocks'[b].isShelved
                          /\ \/ /\ ~volumeBlocks'[b].isHeld
                                /\ kids'[i].carriedVolumeBlock = Null
                                /\ kids'[i].state # "fleeing"
                             \/ /\ volumeBlocks'[b].isHeld
                                /\ volumeBlocks'[b].holder = i
                                /\ kids'[i].carriedVolumeBlock = b
                                /\ kids'[i].state = "fleeing"
                ELSE /\ kids'[i].state = "wandering"
                     /\ kids'[i].volumeBlockStealCooldown = TimeScale
                     /\ shelves' = shelves /\ ChangedBlocks = {}
      ]_vars

\* What the code does where C24 fails: a kid that takes a block off its
\* target shelf turns to Fleeing whether it knocks the block to the floor
\* or carries it (when the carry timer does not force a drop in the same
\* update).
C24_GrabAlwaysFlees ==
    [][ \A i \in 1..Len(kids) :
          (/\ GrabNow(i) /\ HasStock(shelves, kids[i].target)
           /\ kids[i].dropVolumeBlockTimer + deltaTime
                 <= dropVolumeBlockMinTime(kids[i].aggressionLevel))
              => /\ kids'[i].state = "fleeing"
                 /\ kids'[i].volumeBlockStealCooldown =
                        volumeBlockStealCooldownTime(kids[i].aggressionLevel)
      ]_vars

\* C25: a kid takes a block off its target shelf only after it has waited
\* at that shelf, during the Stealing episode in which it takes the block,
\* for the full grab delay of its tier; the time waited in an earlier episode
\* that was interrupted does not count.
C25_FullGrabDelay ==
    [][ \A i \in 1..Len(kids) :
          (GrabNow(i) /\ HasStock(shelves, kids[i].target))
              => history[i].waited + deltaTime
                     >= grabDelayTime(kids[i].aggressionLevel)
      ]_vars

\* What the code does where C25 fails: the time waited at the shelf in this
\* episode and the grab delay left when the episode began add up to the full
\* grab delay at least.
C25_DelayCarriedOver ==
    [][ \A i \in 1..Len(kids) :
          (/\ lastCall'.op = "kid" /\ lastCall'.arg = i
           /\ kids[i].state = "stealing" /\ kids'[i].state = "stealing")
              => (kids'[i].grabDelay > 0
                    => kids'[i].grabDelay + history'[i].waited
                           <= grabDelayTime(kids[i].aggressionLevel))
      ]_vars

\* The update of kid i in which the carry timer makes it drop its block
\* (lines 121-126): the only place where dropVolumeBlockTimer is set to 0.
\* The kid carried the block before the update, or took it in this update:
\* a kid that takes a block is Fleeing unless the timer makes it drop.
ForcedDrop(i) ==
    /\ lastCall'.op = "kid" /\ lastCall'.arg = i
    /\ kids'[i].dropVolumeBlockTimer = 0
    /\ \/ kids[i].carriedVolumeBlock # Null
       \/ /\ GrabNow(i) /\ ChangedBlocks # {}
          /\ kids'[i].state = "wandering"

\* The blocks kid i had in its hands during the update: the one it carried
\* before, or the one it took off the shelf.
HandledBlocks(i) ==
    IF kids[i].carriedVolumeBlock # Null THEN {kids[i].carriedVolumeBlock}
    ELSE ChangedBlocks

\* C26: when the carry timer makes a kid drop its block, the block is on
\* the floor, not held, with no holder, the kid carries nothing and is
\* Wandering, whatever state it was in; a kid whose carry timer passes the
\* tier's maximum carry time in an update does not carry its block after
\* that update, so that between updates no kid has carried its block for
\* longer than the maximum carry time.
C26_ForcedDrop ==
    [][ \A i \in 1..Len(kids) :
          /\ ForcedDrop(i)
               => /\ kids'[i].carriedVolumeBlock = Null
                  /\ kids'[i].state = "wandering"
                  /\ \A b \in HandledBlocks(i) :
                        /\ ~volumeBlocks'[b].isHeld
                        /\ ~volumeBlocks'[b].isShelved
                        /\ volumeBlocks'[b].holder = Null
          /\ (/\ lastCall'.op = "kid" /\ lastCall'.arg = i
              /\ kids[i].carriedVolumeBlock # Null
              /\ kids[i].dropVolumeBlockTimer + deltaTime
                    > dropVolumeBlockMaxTime(kids[i].aggressionLevel))
               => kids'[i].carriedVolumeBlock = Null
          /\ kids'[i].carriedVolumeBlock # Null
               => history'[i].carried
                     <= dropVolumeBlockMaxTime(kids'[i].aggressionLevel)
      ]_vars

\* Kid i took its block half a second before the update (its steal cooldown
\* had just started) and the update of 5 s has made it drop the block: it
\* is Wandering with empty hands, its carry timer at 0, a block on the floor.
C26_Witness ==
    /\ lastCall.op = "kid" /\ deltaTime = 5 * TimeScale
    /\ LET k == kids[lastCall.arg]
       IN  /\ k.volumeBlockStealCooldown
                 = volumeBlockStealCooldownTime(1) - deltaTime
           /\ k.carriedVolumeBlock = Null /\ k.state = "wandering"
           /\ k.dropVolumeBlockTimer = 0
           /\ history[lastCall.arg].carried = 0
    /\ \E b \in BlockIds :
          /\ ~volumeBlocks[b].isHeld /\ ~volumeBlocks[b].isShelved
          /\ volumeBlocks[b].holder = Null

\* C27: the carry timer never makes a kid drop a block that the kid has
\* carried for less than the tier's minimum carry time, whatever blocks the
\* kid carried, dropped in flight or lost to the player before.
C27_MinCarryTime ==
    [][ \A i \in 1..Len(kids) :
          ForcedDrop(i)
             => (IF kids[i].carriedVolumeBlock # Null
                   THEN history[i].carried ELSE 0) + deltaTime
                   >= dropVolumeBlockMinTime(kids[i].aggressionLevel)
      ]_vars

\* What the code does where C27 fails: the forced drop waits for the kid's
\* carry timer to pass the minimum carry time, and the timer is not reset
\* when a Fleeing kid drops its block in fright (lines 293-296).
C27_TimerPassedMinimum ==
    [][ \A i \in 1..Len(kids) :
          ForcedDrop(i)
             => kids[i].dropVolumeBlockTimer + deltaTime
                   > dropVolumeBlockMinTime(kids[i].aggressionLevel)
      ]_vars

\* C28: the update of a Fleeing kid whose centre is farther than 1.5 times
\* playerDetectionRange from the player's leaves the kid Wandering; at that
\* distance or nearer the kid stays Fleeing, unless the carry timer makes it
\* drop its block in the same update.
C28_FleeUntilFar ==
    [][ \A i \in 1..Len(kids) :
          (/\ lastCall'.op = "kid" /\ lastCall'.arg = i
           /\ kids[i].state = "fleeing")
             => IF 2 * lastCall'.ret > 3 * playerDetectionRange
                  THEN kids'[i].state = "wandering"
                  ELSE ForcedDrop(i) \/ kids'[i].state = "fleeing"
      ]_vars

\* A kid that was Fleeing with a block in its hands, one pixel farther than
\* 1.5 times the detection range from the player, is Wandering after its
\* update, the block still in its hands.
C28_Witness ==
    /\ lastCall.op = "kid"
    /\ 2 * lastCall.ret > 3 * playerDetectionRange
    /\ kids[lastCall.arg].state = "wandering"
    /\ kids[lastCall.arg].carriedVolumeBlock # Null

\* A kid that was Fleeing at 1.5 times the detection range exactly is still
\* Fleeing after its update: it has dropped its block in fright, and its
\* carry timer has not been reset.
C28_StillFleeing ==
    /\ lastCall.op = "kid"
    /\ 2 * lastCall.ret = 3 * playerDetectionRange
    /\ kids[lastCall.arg].state = "fleeing"
    /\ kids[lastCall.arg].carriedVolumeBlock = Null
    /\ kids[lastCall.arg].dropVolumeBlockTimer > 0

----------------------------------------------------------------------------
(* Claims about where a kid stands, checked under SpecSpawn *)

\* A kid at (x, y) overlaps the collision box of a shelf of the vault.
OverlapsShelf(x, y) == \E q \in LayoutPositions : checkCollision(x, y, q)

C30_KeptSpawnPoint ==
    /\ lastCall.op = "spawning" /\ lastCall.ret = 1
    /\ spawnPoints[lastCall.arg] = <<500, 400>>
    /\ ~OverlapsShelf(500, 400)
    /\ lastSpawn = <<500, 400>>

----------------------------------------------------------------------------
(* Claims about the shelf a kid picks and about its movement, checked under *)
(* SpecMove *)

\* The update of kid i in which it turns to Stealing.
TurnsToStealing(i) ==
    /\ lastCall'.op = "kid" /\ lastCall'.arg = i
    /\ kids[i].state # "stealing" /\ kids'[i].state = "stealing"

\* The stocked shelves within shelfDetectionRange of the kid at b.
StockedInRange(S, b) ==
    {s \in ShelfIds :
        /\ HasStock(S, s)
        /\ DistanceSquared(b, s) < shelfDetectionRange * shelfDetectionRange}

\* C22: a kid turns to Stealing only from Wandering, and only in an update
\* in which the player is not within playerDetectionRange, the kid carries
\* no block, its steal cooldown, as the update tests it, is at most 0, and
\* a stocked shelf stands within shelfDetectionRange; its target is then
\* such a shelf.  No other step makes a kid Stealing.
C22_StealingEntry ==
    [][ \A i \in 1..Len(kids) :
          (kids[i].state # "stealing" /\ kids'[i].state = "stealing")
             => /\ TurnsToStealing(i)
                /\ kids[i].state = "wandering"
                /\ lastCall'.ret >= playerDetectionRange
                /\ kids[i].carriedVolumeBlock = Null
                /\ kids'[i].carriedVolumeBlock = Null
                /\ kids'[i].volumeBlockStealCooldown <= 0
                /\ kids[i].volumeBlockStealCooldown - deltaTime' <= 0
                /\ kids'[i].target \in StockedInRange(shelves, body)
      ]_vars

\* Kid 1 has turned to Stealing between shelves 1 and 2: shelf 1 has no
\* stock, and its target is shelf 2.
C22_Witness ==
    /\ lastCall.op = "kid" /\ lastCall.arg = 1
    /\ lastCall.ret >= playerDetectionRange
    /\ kids[1].state = "stealing" /\ kids[1].target = 2
    /\ kids[1].carriedVolumeBlock = Null
    /\ ~HasStock(shelves, 1) /\ HasStock(shelves, 2)
    /\ body.x = 330 /\ body.y = 220
    /\ 2 \in StockedInRange(shelves, body)

\* C23: when several stocked shelves stand within range of a kid that turns
\* to Stealing, its target is the nearest of them.
C23_NearestShelf ==
    [][ TurnsToStealing(1) =>
          \A o \in StockedInRange(shelves, body) :
              DistanceSquared(body, kids'[1].target) <= DistanceSquared(body, o)
      ]_vars

\* What the code does where C23 fails: the target is the first shelf of
\* this.shelves that passes the tests of lines 162-168.
C23_FirstShelfOfList ==
    [][ TurnsToStealing(1) =>
          /\ kids'[1].target \in SeenFrom(body)
          /\ HasStock(shelves, kids'[1].target)
          /\ \A o \in SeenFrom(body) :
                HasStock(shelves, o) => kids'[1].target <= o
      ]_vars

\* C29: the update of a kid that overlaps no shelf leaves it overlapping no
\* shelf.
C29_NoOverlapAfterMove ==
    [][ (lastCall'.op = "kid" /\ ~OverlapsShelf(body.x, body.y))
           => ~OverlapsShelf(body'.x, body'.y)
      ]_vars

\* What the code does where C29 fails: the new position of each axis alone,
\* with the other axis where it was, collides with no shelf that passes the
\* bounds check of checkRadius.
C29_EachAxisAlone ==
    [][ (lastCall'.op = "kid" /\ ~OverlapsShelf(body.x, body.y))
           => \A q \in NearbyShelves(body) :
                 /\ ~checkCollision(body'.x, body.y, q)
                 /\ ~checkCollision(body.x, body'.y, q)
      ]_vars

\* C29 for the frames of 0.2 s alone, in which no kid moves farther than a
\* shelf is wide: it fails as well, at the corner of a shelf.
C29_NoOverlapInShortFrames ==
    [][ (/\ lastCall'.op = "kid" /\ deltaTime' = TimeScale \div 5
         /\ ~OverlapsShelf(body.x, body.y))
           => ~OverlapsShelf(body'.x, body'.y)
      ]_vars

----------------------------------------------------------------------------
(* Claims about two runs of one session, checked under SpecTwin *)

C21_SameWorlds ==
    /\ twin.W = World
    /\ twin.maxKids = maxKids /\ twin.kidSpawnTimer = kidSpawnTimer

----------------------------------------------------------------------------
(* Claims about the spawn timer, checked under SpecSpawn *)

\* C31: a call of the scheduler adds one kid or none; it adds one only when
\* the population is under the cap of that tick and the spawn timer, less
\* the tick's deltaTime, is at or under 0; the timer then restarts at 15 s,
\* and at least 15 s of simulated time have passed since the spawn before
\* or, for the first spawn, since the session started; a tick that raises
\* the cap while the timer has not run out adds no kid.
C31_ScheduledSpawn ==
    [][ SchedulerStep =>
          LET dt == elapsedTime' - elapsedTime
          IN  /\ Len(kids') \in {Len(kids), Len(kids) + 1}
              /\ Len(kids') > Len(kids) =>
                    /\ Len(kids) < maxKids'
                    /\ kidSpawnTimer - dt <= 0
                    /\ kidSpawnTimer' = Seconds(15)
                    /\ schedule.sinceSpawn + dt >= Seconds(15)
                    /\ SubSeq(kids', 1, Len(kids)) = kids
              /\ (maxKids' > maxKids /\ kidSpawnTimer - dt > 0) => kids' = kids
      ]_vars

\* The second scheduled spawn of a session of short frames: the first one
\* filled the cap of 3 at 15 s, the cap rose to 5 at 60 s and the timer ran
\* out 15 s later.
C31_Witness ==
    /\ lastCall.op = "spawning" /\ lastCall.ret = 1
    /\ Len(kids) = 4
    /\ elapsedTime = Seconds(70)
    /\ schedule = NoSchedule

\* C32: while the calls of the scheduler in a row find the population under
\* the cap, the spawn timer counts down in each of them, and the time so
\* waited stays under 15 s: the call in which it reaches 15 s spawns a kid.
C32_SpawnWithinInterval ==
    [][ SchedulerStep =>
          LET dt == elapsedTime' - elapsedTime
          IN  /\ (Len(kids) < maxKids' /\ Len(kids') = Len(kids)) =>
                    kidSpawnTimer' = kidSpawnTimer - dt
              /\ (Len(kids) < maxKids' /\ schedule.waited + dt >= Seconds(15))
                    => Len(kids') = Len(kids) + 1
              /\ schedule'.waited < Seconds(15)
      ]_vars

\* The population has been under the cap for 10 s in a row, in the tenth
\* minute and later, where the cap rises by two kids a minute.
C32_Witness ==
    /\ lastCall.op = "spawning" /\ lastCall.ret = 0
    /\ schedule.waited = Seconds(10)
    /\ Len(kids) < maxKids
    /\ elapsedTime > Seconds(10 * 60)

----------------------------------------------------------------------------
(* Claims about where the blocks are, checked under SpecTick *)

\* The kids that carry block b, and the places of the player's carried
\* collection that hold it.
CarriersOf(b) == {i \in 1..Len(kids) : kids[i].carriedVolumeBlock = b}

HandsOf(b) ==
    {j \in 1..Len(carriedVolumeBlocks) : carriedVolumeBlocks[j] = b}

\* The number of places block b is in: the shelf slots that hold it, the
\* kids that carry it, the places of the player's collection that hold it,
\* and the floor, where a block lies that is neither Held nor Shelved.
PlacesOf(b) ==
    Cardinality(SlotsOf(b)) + Cardinality(CarriersOf(b))
      + Cardinality(HandsOf(b))
      + (IF ~volumeBlocks[b].isHeld /\ ~volumeBlocks[b].isShelved THEN 1 ELSE 0)

C33_NoBlockInTwoPlaces ==
    pc = "idle" =>
        \A b \in BlockIds :
            /\ PlacesOf(b) <= 1
            /\ PlacesOf(b) = 0 => volumeBlocks[b].isHeld

\* C34: between two update() calls every block that is marked Held with a
\* kid as its holder is the block that this kid carries.
C34_HeldByItsCarrier ==
    pc = "idle" =>
        \A b \in BlockIds :
            (/\ volumeBlocks[b].isHeld /\ volumeBlocks[b].holder # Null
             /\ volumeBlocks[b].holder # Player)
                => /\ volumeBlocks[b].holder \in 1..Len(kids)
                   /\ kids[volumeBlocks[b].holder].carriedVolumeBlock = b

\* C34 for the blocks that the player does not carry either: it fails for
\* them as well, whatever pickup() does to a block that is marked Held.
C34_HeldBlockIsCarried ==
    pc = "idle" =>
        \A b \in BlockIds :
            volumeBlocks[b].isHeld =>
                Cardinality(CarriersOf(b)) + Cardinality(HandsOf(b)) >= 1

----------------------------------------------------------------------------
(* Claims about the snatch, checked under SpecTick *)

\* The player's collection P holds block b.
Carries(P, b) == \E j \in DOMAIN P : P[j] = b

\* The kids that checkVolumeBlockSnatching robs with success in this step:
\* the block they carried is new in the player's collection.
SnatchedKids ==
    {i \in 1..Len(kids) :
        /\ kids[i].carriedVolumeBlock # Null
        /\ ~Carries(carriedVolumeBlocks, kids[i].carriedVolumeBlock)
        /\ Carries(carriedVolumeBlocks', kids[i].carriedVolumeBlock)}

SnatchStepTaken == pc = "snatching" /\ pc' = "shelving"

\* C35: after a successful snatch the kid carries nothing, its carry timer
\* is 0 and it is Fleeing; the block is held by the player (holder = player,
\* in the carried collection) and is not counted in the chaos source; the
\* collected counter has grown by one per snatch and the repelled counter is
\* as before.
C35_SuccessfulSnatch ==
    [][ SnatchStepTaken =>
          /\ \A i \in SnatchedKids :
                LET b == kids[i].carriedVolumeBlock
                IN  /\ kids'[i].carriedVolumeBlock = Null
                    /\ kids'[i].dropVolumeBlockTimer = 0
                    /\ kids'[i].state = "fleeing"
                    /\ volumeBlocks'[b].isHeld
                    /\ volumeBlocks'[b].holder = Player
                    /\ Carries(carriedVolumeBlocks', b)
                    /\ totalChaosVolumeBlocks(volumeBlocks')
                          = totalChaosVolumeBlocks(
                              [c \in (DOMAIN volumeBlocks) \ {b}
                                  |-> volumeBlocks'[c]])
          /\ stats'.volumeBlocksCollected
                = stats.volumeBlocksCollected + Cardinality(SnatchedKids)
          /\ stats'.kidsRepelled = stats.kidsRepelled ]_vars

\* What holds of a successful snatch: all of C35 but the holder of the block
\* and its place in the chaos source.
C35_SnatchButHolder ==
    [][ SnatchStepTaken =>
          /\ \A i \in SnatchedKids :
                LET b == kids[i].carriedVolumeBlock
                IN  /\ kids'[i].carriedVolumeBlock = Null
                    /\ kids'[i].dropVolumeBlockTimer = 0
                    /\ kids'[i].state = "fleeing"
                    /\ volumeBlocks'[b].isHeld
                    /\ volumeBlocks'[b].holder = volumeBlocks[b].holder
                    /\ Carries(carriedVolumeBlocks', b)
          /\ stats'.volumeBlocksCollected
                = stats.volumeBlocksCollected + Cardinality(SnatchedKids)
          /\ stats'.kidsRepelled = stats.kidsRepelled ]_vars

----------------------------------------------------------------------------
(* Claims about the target of a kid, checked under SpecTick *)

\* C36: between two update() calls a kid in Stealing has a target shelf and
\* carries no block.
C36_StealingHasTargetNoBlock ==
    pc = "idle" =>
        \A i \in 1..Len(kids) :
            kids[i].state = "stealing" =>
                /\ kids[i].target \in ShelfIds
                /\ kids[i].carriedVolumeBlock = Null

\* A kid that carries a block has no target.
CarriersHaveNoTarget ==
    \A i \in 1..Len(kids) :
        kids[i].carriedVolumeBlock # Null => kids[i].target = Null

\* The blocks that a kid lets go in this step: held by a kid before, on the
\* floor after.
DroppedBlocks ==
    {b \in BlockIds :
        /\ volumeBlocks[b].isHeld /\ volumeBlocks[b].holder \in 1..Len(kids)
        /\ kids[volumeBlocks[b].holder].carriedVolumeBlock = b
        /\ ~volumeBlocks'[b].isHeld /\ ~volumeBlocks'[b].isShelved}

C36_Witness ==
    /\ pc = "idle" /\ lastCall.op = "shelve"
    /\ Len(kids) >= 2
    /\ kids[2].state = "stealing" /\ kids[2].grabDelay > 0
    /\ kids[2].target \in ShelfIds
    /\ kids[1].carriedVolumeBlock # Null

----------------------------------------------------------------------------
(* Claims about the blocks on the floor, checked under SpecDrop *)

\* The block placed last lies inside the world.
InsideWorld(p) ==
    /\ 0 <= p.x /\ p.x <= worldWidth - p.width
    /\ 0 <= p.y /\ p.y <= worldHeight - p.height

\* C38: every block that a kid puts on the floor, knocked off a shelf or
\* dropped from its carry, is placed with its whole box inside the world,
\* for every shelf of the vault and every draw.
C38_PlacedInsideWorld ==
    placed.op \in {"knock", "drop"} => InsideWorld(placed)

\* What holds: a block dropped from the carry lies inside the world, 20
\* pixels or more from its edges.
C38_DroppedInsideWorld ==
    placed.op = "drop" =>
        /\ InsideWorld(placed)
        /\ placed.x >= 20 /\ placed.x <= worldWidth - placed.width - 20
        /\ placed.y >= 20 /\ placed.y <= worldHeight - placed.height - 20

----------------------------------------------------------------------------
(* Claims about the start of a session, checked under SpecEnter *)

\* Shelf s is filled to its capacity with blocks of its own color, each
\* standing in one slot and marked Shelved on s.
FilledWithOwnColor(s) ==
    /\ Len(shelves[s].slots) = shelves[s].capacity
    /\ \A i \in 1..shelves[s].capacity :
          LET b == shelves[s].slots[i]
          IN  /\ b \in BlockIds
              /\ volumeBlocks[b].color = shelves[s].color
              /\ volumeBlocks[b].isShelved /\ ~volumeBlocks[b].isHeld
              /\ volumeBlocks[b].shelf = s
              /\ \A j \in 1..shelves[s].capacity :
                    shelves[s].slots[j] = b => j = i

\* C39: when the playing state has just been entered, whatever the session
\* before was, chaos is 0, the elapsed time 0, the level 1, the XP 0 with
\* 100 to the next level, the game is not paused, the statistics are 0, the
\* cap is 3, the spawn timer 15 s, there are 2 kids of aggression 1 and
\* every shelf is filled to capacity with blocks of its own color.
C39_SameInitialSession ==
    (lastCall.op = "enter" \/ (lastCall = NoCall /\ ticks = 0)) =>
        /\ chaosLevel = 0 /\ elapsedTime = 0
        /\ playerLevel = 1 /\ xp = 0 /\ xpToNext = 100
        /\ ~isPaused
        /\ stats = NoStats
        /\ maxKids = 3 /\ kidSpawnTimer = Seconds(15)
        /\ Len(kids) = 2
        /\ \A i \in 1..Len(kids) : kids[i] = NewKid(1)
        /\ \A s \in ShelfIds : FilledWithOwnColor(s)
        /\ \A b \in BlockIds : volumeBlocks[b].isShelved

\* Witness of C39: a restart has just left a session that had run for 10 s
\* in two updates and was paused by the third.
C39_Witness ==
    /\ lastCall.op = "enter" /\ lastCall.arg = Seconds(10) /\ lastCall.ret = 2
    /\ ticks = MaxTicks
    /\ stats = NoStats /\ Len(kids) = 2

----------------------------------------------------------------------------
(* Claims about the end of a session, checked under SpecSession *)

C40_LostWitness ==
    /\ outcome = "lost" /\ elapsedTime < targetTime
    /\ chaosLevel >= MaxChaosUnits

====
